---- MODULE Spec2Model ----
(***************************************************************************)
(* Face matching, model loading and descriptor extraction                  *)
(* (src/lib/face/engine.ts) and the scan session of                        *)
(* FaceScanDialog (src/components/face/FaceScanDialog.tsx, the second,     *)
(* current version of the component: lines 271-675); the camera session    *)
(* of FaceCaptureDialog (src/components/face/FaceCaptureDialog.tsx) and    *)
(* requestCameraPermission (lib/camera-utils).                             *)
(*                                                                         *)
(* Numbers.  Descriptor coordinates are integers in tenths; distances,     *)
(* thresholds and confidences are integers in hundredths (0.6 is 60).      *)
(* Math.sqrt is modelled by Sqrt, the square root rounded down to a whole  *)
(* number of hundredths.                                                   *)
(*                                                                         *)
(* React.  A function of the component reads the state and the props of    *)
(* the render that created it.  A handler bound in the JSX is the one of   *)
(* the latest render and reads the variables below directly; a callback    *)
(* that outlives its render (the setInterval callback, the cooldown        *)
(* setTimeout callback, a suspended async function) carries a closure: a   *)
(* record of the values its render had.  Refs (videoRef, streamRef,        *)
(* scanIntervalRef) and state setters are shared by all renders.           *)
(***************************************************************************)
EXTENDS Integers, Sequences, FiniteSets, Bags, TLC

(***************************************************************************)
(* Bounds                                                                  *)
(***************************************************************************)
MaxCoord == 2       \* descriptor coordinates are Grid * (0..MaxCoord) tenths
Grid == 3           \* spacing of the coordinates drawn for the matcher, in tenths
FarCoord == 12      \* one more coordinate, more than 1.0 away from the origin, in tenths
MaxRoster == 2      \* longest roster handed to findBestMatch
MaxStarts == 2      \* startCamera calls suspended at one time
MaxScans == 2       \* performScan calls suspended at one time
MaxCooldowns == 2   \* cooldown timeouts pending at one time
MaxStreams == 2     \* media streams alive or still referenced at one time
MaxTimers == 2      \* interval handles
MaxMarks == 2       \* onMarkAttendance calls counted per student
MaxScanCount == 1   \* the displayed tick counter saturates here
MaxCalls == 2       \* engine calls (loadModels, getDescriptorFrom...) suspended at one time
MaxTracks == 6      \* most tracks of a stream handed to stopVideoStream
MaxStops == 2       \* stopVideoStream calls made on one stream
MaxCaptureStarts == 3  \* startCamera calls of one FaceCaptureDialog
MaxShots == 2       \* capturePhoto calls of one FaceCaptureDialog
MaxBatch == 3       \* most students without face data handed to BatchEnrollDialog
MaxSessions == 2    \* times the batch dialog is opened
MaxEnrollCalls == 2 \* handleFaceCapture calls made in all

(***************************************************************************)
(* engine.ts: the matcher                                                  *)
(***************************************************************************)
MATCH_THRESHOLD == 60

Coords == {Grid * k : k \in 0..MaxCoord} \cup {FarCoord}
Descriptors == [1..1 -> Coords] \cup [1..2 -> Coords]
Rosters ==
  UNION {{[i \in 1..n |-> [studentId |-> i, descriptor |-> f[i]]] :
            f \in [1..n -> Descriptors]} : n \in 0..MaxRoster}
Thresholds == {40, MATCH_THRESHOLD, 150}

RECURSIVE SqrtBetween(_, _, _)
SqrtBetween(n, lo, hi) ==
  IF lo >= hi THEN lo
  ELSE LET mid == (lo + hi + 1) \div 2
       IN  IF mid * mid <= n THEN SqrtBetween(n, mid, hi)
           ELSE SqrtBetween(n, lo, mid - 1)

\* Math.sqrt of a sum of squares given in hundredths, result in hundredths.
Sqrt(sum) == SqrtBetween(100 * sum, 0, 100 * sum)

Max(a, b) == IF a >= b THEN a ELSE b
Min(a, b) == IF a <= b THEN a ELSE b

RECURSIVE SumSquares(_, _, _)
SumSquares(a, b, i) ==
  IF i > Len(a) THEN 0
  ELSE (a[i] - b[i]) * (a[i] - b[i]) + SumSquares(a, b, i + 1)

\* a mutant of the length check: only a longer first vector is refused
DistanceThrowsWhenLonger(a, b) == Len(a) > Len(b)

\* euclideanDistance throws when the lengths differ
DistanceThrows(a, b) == Len(a) # Len(b)

\* a mutant of the sum: the first vector's first coordinate is added to it
euclideanDistanceSkewed(a, b) == Sqrt(SumSquares(a, b, 1) + a[1])
euclideanDistance(a, b) == Sqrt(SumSquares(a, b, 1))

NoMatch == [studentId |-> 0, distance |-> -1, confidence |-> -1]
Infinity == 1000000

\* a mutant of line 132: the confidence is not clamped at 0
ConfidenceUnclamped(distance) == 100 - distance

\* Math.max(0, 1 - distance), in hundredths
Confidence(distance) == Max(0, 100 - distance)

\* the mutants of the loop body: a tie replaces the running minimum; the
\* threshold test is dropped
AcceptsOnTie(distance, minDistance, threshold) ==
  distance <= minDistance /\ distance < threshold
AcceptsAboveThreshold(distance, minDistance, threshold) ==
  distance < minDistance

\* the test of the loop body, engine.ts line 127
Accepts(distance, minDistance, threshold) ==
  distance < minDistance /\ distance < threshold

\* the for loop of findBestMatch from entry i on, with the running
\* bestMatch and minDistance; an entry whose comparison throws is skipped
RECURSIVE BestMatchLoop(_, _, _, _, _, _)
BestMatchLoop(inputDescriptor, enrolledFaces, threshold, i, bestMatch, minDistance) ==
  IF i > Len(enrolledFaces) THEN bestMatch
  ELSE LET enrolled == enrolledFaces[i]
       IN  IF DistanceThrows(inputDescriptor, enrolled.descriptor)
           THEN BestMatchLoop(inputDescriptor, enrolledFaces, threshold, i + 1,
                              bestMatch, minDistance)
           ELSE LET distance == euclideanDistance(inputDescriptor, enrolled.descriptor)
                IN  IF Accepts(distance, minDistance, threshold)
                    THEN BestMatchLoop(inputDescriptor, enrolledFaces, threshold, i + 1,
                                       [studentId |-> enrolled.studentId,
                                        distance |-> distance,
                                        confidence |-> Confidence(distance)],
                                       distance)
                    ELSE BestMatchLoop(inputDescriptor, enrolledFaces, threshold, i + 1,
                                       bestMatch, minDistance)

findBestMatch(inputDescriptor, enrolledFaces, threshold) ==
  IF Len(enrolledFaces) = 0 THEN NoMatch
  ELSE BestMatchLoop(inputDescriptor, enrolledFaces, threshold, 1, NoMatch, Infinity)

(***************************************************************************)
(* State                                                                   *)
(***************************************************************************)
VARIABLES
  \* a call of findBestMatch: its arguments, its result, whether it returned
  inputDescriptor, enrolledFaces, threshold, result, returned,
  \* FaceScanDialog: props
  isOpen, attendanceMarked,
  \* FaceScanDialog: React state
  isStreaming, isScanning, error, lastMatch, scanCount, facingMode, settings,
  \* FaceScanDialog: refs (0 is null)
  videoRef, streamRef, scanIntervalRef,
  \* the browser: whether navigator.mediaDevices.getUserMedia exists, the
  \* srcObject of each video element, the streams with a live track, the
  \* intervals set and not cleared (handle -> closure of its callback)
  cameraSupported, srcObject, activeStreams, intervals,
  \* suspended callbacks: startCamera calls, performScan calls awaiting
  \* getDescriptorFromVideoFrame, pending cooldown timeouts (bags of
  \* closures)
  starts, scans, cooldowns,
  \* the collaborator: how often onMarkAttendance(s, 'present') was invoked
  markCalls,
  \* engine.ts: the module's flag, the suspended calls of loadModels and of
  \* getDescriptorFrom... (a bag), and what the call that settled last
  \* delivered to the component that made it
  modelsLoaded, pending, completion,
  \* FaceCaptureDialog.tsx: the dialog's state, its refs, the stream bound
  \* to its video element, the streams it holds live and the position of
  \* its startCamera
  capture,
  \* engine.ts, euclideanDistance: the arguments of a call and what it gave
  vecA, vecB, measured,
  \* engine.ts, stopVideoStream: the readyState of each track of the stream,
  \* the calls made on it and how the last one ended
  tracks, stopCalls, stopResult,
  \* requestCameraPermission: what the browser offers (the permissions API,
  \* the answer of its query, the answer of getUserMedia) and the call
  permissionsApi, queryOutcome, acquireOutcome, permission,
  \* BatchEnrollDialog.tsx: the dialog's state, the handleFaceCapture calls
  \* suspended (a bag) and the calls of onEnrollmentComplete
  batch,
  \* TeacherDashboard.tsx: the attendance records of the loaded students
  dashboard

matchVars == <<inputDescriptor, enrolledFaces, threshold, result, returned>>
dialogVars ==
  <<isOpen, attendanceMarked, isStreaming, isScanning, error, lastMatch,
    scanCount, facingMode, settings, videoRef, streamRef, scanIntervalRef,
    cameraSupported, srcObject, activeStreams, intervals, starts, scans,
    cooldowns, markCalls>>
engineVars == <<modelsLoaded, pending, completion>>
libVars ==
  <<capture, vecA, vecB, measured, tracks, stopCalls, stopResult,
    permissionsApi, queryOutcome, acquireOutcome, permission, batch,
    dashboard>>
vars == <<matchVars, dialogVars, engineVars, libVars>>

(***************************************************************************)
(* The class of the session: two enrolled students, and the descriptors    *)
(* an extraction can produce                                               *)
(***************************************************************************)
Students == {1, 2}
students ==
  <<[studentId |-> 1, descriptor |-> <<0, 0>>],
    [studentId |-> 2, descriptor |-> <<20, 0>>]>>
\* student 1 is the one in front of the camera, at distance 0.3 or 0.5
\* from the enrolled descriptor; student 2 is absent and is not recorded
Present == {1}
Probes == {<<3, 0>>, <<5, 0>>}
NoDescriptor == <<>>

DefaultSettings == [confidenceThreshold |-> 40, autoMarkThreshold |-> 60]
SettingsChoices ==
  {DefaultSettings, [confidenceThreshold |-> 60, autoMarkThreshold |-> 80]}

VideoIds == 1..(MaxStarts + 1)
TimerIds == 1..MaxTimers
NoDisplay == [student |-> 0, confidence |-> 0]
NoClosure == [isStreaming |-> FALSE, settings |-> DefaultSettings,
              attendanceMarked |-> {}, live |-> FALSE]

\* what performScan, startScanning and the cooldown callback of the
\* current render read
ScanClosure ==
  [isStreaming |-> isStreaming, settings |-> settings,
   attendanceMarked |-> attendanceMarked, live |-> TRUE]

DialogInit ==
  /\ isOpen = FALSE
  /\ attendanceMarked = {}
  /\ isStreaming = FALSE
  /\ isScanning = FALSE
  /\ error = ""
  /\ lastMatch = NoDisplay
  /\ scanCount = 0
  /\ facingMode = "user"
  /\ settings = DefaultSettings
  /\ videoRef = 0
  /\ streamRef = 0
  /\ scanIntervalRef = 0
  /\ cameraSupported \in BOOLEAN
  /\ srcObject = [v \in VideoIds |-> 0]
  /\ activeStreams = {}
  /\ intervals = [t \in TimerIds |-> NoClosure]
  /\ starts = EmptyBag
  /\ scans = EmptyBag
  /\ cooldowns = EmptyBag
  /\ markCalls = [s \in Students |-> 0]

(***************************************************************************)
(* engine.ts: loading the models and extracting a descriptor               *)
(***************************************************************************)
modelSources == <<"/models", "raw.githubusercontent.com", "cdn.jsdelivr.net">>
\* the three nets one source has to deliver
Nets == {"tinyFaceDetector", "faceLandmark68Net", "faceRecognitionNet"}

\* the mutant of the Promise.all: one net is enough
SourceLoadsAny(loaded) == loaded # {}

\* Promise.all of the three loadFromUri calls resolves
SourceLoads(loaded) == loaded = Nets

\* the for loop moves to the source after source i
NextSource(i) == i + 1

\* the mutant of the outer catch: the flag is set
FlagOnFailureSet == TRUE

\* the flag the outer catch of loadModels writes, line 51
FlagOnFailure == FALSE

\* what a call delivers: a value, or an error thrown to the caller
Returned(fn, value, cause) ==
  [fn |-> fn, thrown |-> FALSE, value |-> value, cause |-> cause]
Thrown(fn, cause) ==
  [fn |-> fn, thrown |-> TRUE, value |-> NoDescriptor, cause |-> cause]
NoCompletion == Returned("", NoDescriptor, "")

\* the mutant of the catch of getDescriptorFrom...: the error goes on
OnErrorRethrown(fn, cause) == Thrown(fn, cause)

\* the catch of getDescriptorFrom...: the cause is logged, null returned
OnError(fn, cause) == Returned(fn, NoDescriptor, cause)

\* what detectSingleFace(...).withFaceLandmarks().withFaceDescriptor()
\* can do: a face with its descriptor, no face, or a failure
Detections ==
  {[kind |-> "none", descriptor |-> NoDescriptor],
   [kind |-> "throws", descriptor |-> NoDescriptor]}
  \cup {[kind |-> "face", descriptor |-> p] : p \in Probes}

\* getDescriptorFrom... from the detection on
Extracted(fn, detection) ==
  IF detection.kind = "throws" THEN OnError(fn, "detect")
  ELSE IF detection.kind = "none" THEN Returned(fn, NoDescriptor, "none")
  ELSE Returned(fn, detection.descriptor, "face")

DescriptorFns == {"getDescriptorFromVideoFrame", "getDescriptorFromImageElement"}

\* A suspended call: the exported function a component called (fn), where
\* it waits (pc: "load" inside loadModels, "detect" in the detection), the
\* sources its loadModels has attempted (tried, the last one being the one
\* loaded now or the one that loaded; empty when the call found the
\* models loaded), and the performScan that made it (scan, empty for the
\* other components).
LoadCall(fn, scan) ==
  [fn |-> fn, pc |-> "load", tried |-> <<1>>, scan |-> scan]
DetectCall(fn) ==
  [fn |-> fn, pc |-> "detect", tried |-> <<>>, scan |-> <<>>]
Source(c) == c.tried[Len(c.tried)]
Loading == {c \in DOMAIN pending : c.pc = "load"}

EngineInit ==
  /\ modelsLoaded = FALSE
  /\ pending = EmptyBag
  /\ completion = NoCompletion

(***************************************************************************)
(* engine.ts: euclideanDistance and stopVideoStream called on their own;   *)
(* requestCameraPermission; the state of FaceCaptureDialog                 *)
(***************************************************************************)
\* what a call of euclideanDistance gave: a number, or the length-mismatch
\* error
DistanceCall(a, b) ==
  IF DistanceThrows(a, b) THEN [pc |-> "thrown", value |-> 0]
  ELSE [pc |-> "returned", value |-> euclideanDistance(a, b)]

\* the calls made on the two vectors: (a, b), (b, a) and (a, a)
Pairs == {"ab", "ba", "aa"}
Left(k) == IF k = "ba" THEN vecB ELSE vecA
Right(k) == IF k = "ab" THEN vecB ELSE vecA
NotMeasured == [k \in Pairs |-> [pc |-> "idle", value |-> 0]]

DistanceIdle ==
  /\ vecA = NoDescriptor
  /\ vecB = NoDescriptor
  /\ measured = NotMeasured

\* MediaStreamTrack.readyState of each track of a stream
MediaStreams == UNION {[1..n -> {"live", "ended"}] : n \in 0..MaxTracks}

\* a mutant of the loop of stopVideoStream: stop() restarts an ended track
StopTracksRestarting(stream) ==
  [i \in DOMAIN stream |-> IF stream[i] = "live" THEN "ended" ELSE "live"]

\* stream.getTracks().forEach(track => track.stop()): stop() ends a live
\* track and does nothing to an ended one
StopTracks(stream) == [i \in DOMAIN stream |-> "ended"]

StopIdle ==
  /\ tracks = <<>>
  /\ stopCalls = 0
  /\ stopResult = "none"

QueryOutcomes == {"granted", "prompt", "denied", "throws"}
AcquireOutcomes ==
  {"stream", "NotAllowedError", "NotFoundError", "NotReadableError",
   "SecurityError", "OtherError"}

\* the result of the catch of requestCameraPermission for an error name
PermissionError(name) ==
  CASE name = "NotAllowedError" ->
         "Camera access denied. Please allow camera permissions in your browser."
    [] name = "NotFoundError" -> "No camera found on this device."
    [] name = "NotReadableError" ->
         "Camera is being used by another application."
    [] name = "SecurityError" ->
         "Camera access blocked by security settings. Try using HTTPS."
    [] OTHER -> "Camera permission error"

\* the stream getUserMedia gives to requestCameraPermission: one video track
ProbeStream == <<"live">>

\* a mutant of line 38: the probe stream is returned from as it is
ProbeLeftLive(stream) == stream

\* the probe stream when requestCameraPermission returns granted
ProbeStopped(stream) == StopTracks(stream)

PermissionIdle ==
  [pc |-> "idle", attempted |-> FALSE, probe |-> <<>>, granted |-> FALSE,
   error |-> ""]

RequestIdle ==
  /\ permissionsApi = FALSE
  /\ queryOutcome = "granted"
  /\ acquireOutcome = "stream"
  /\ permission = PermissionIdle

\* FaceCaptureDialog closed, as constructed
\* capturePhoto not running
NoShot == [pc |-> "idle", id |-> 0, descriptor |-> NoDescriptor]

CaptureClosed ==
  [isOpen |-> FALSE, pc |-> "idle", isStreaming |-> FALSE, error |-> "",
   streamRef |-> 0, srcObject |-> 0, active |-> {}, timeout |-> FALSE,
   started |-> 0,
   \* isStreaming as the render of the startCamera in flight had it
   closure |-> FALSE,
   \* the detectFace loops (a bag), each with the isStreaming of its render
   loops |-> EmptyBag,
   faceDetected |-> FALSE, isCapturing |-> FALSE,
   \* the capturePhoto in flight, the calls made, and the calls of onCapture
   shot |-> NoShot, shots |-> 0, delivered |-> <<>>]

CaptureInit == capture = CaptureClosed

\* BatchEnrollDialog closed, as constructed, for n students without face
\* data in the students prop
BatchClosed(n) ==
  [isOpen |-> FALSE, n |-> n, currentStudentIndex |-> 0,
   enrolledStudents |-> {}, isCapturing |-> FALSE, showCapture |-> FALSE,
   saving |-> EmptyBag, calls |-> 0, sessions |-> 0, completed |-> 0,
   persisted |-> {}]

BatchIdle == batch = BatchClosed(0)

\* TeacherDashboard after fetchStudents: one record per student, present
Statuses == {"present", "absent", "late"}
\* fetchStudents: one record per loaded student, present by default
Fetched == {[student_id |-> s, status |-> "present"] : s \in Students}

DashboardIdle == dashboard = [attendance |-> Fetched]

LibIdle ==
  /\ CaptureInit /\ DistanceIdle /\ StopIdle /\ RequestIdle
  /\ BatchIdle /\ DashboardIdle

MatchIdle ==
  /\ inputDescriptor = NoDescriptor
  /\ enrolledFaces = <<>>
  /\ threshold = MATCH_THRESHOLD
  /\ result = NoMatch
  /\ returned = FALSE

(***************************************************************************)
(* SpecMatch: findBestMatch on every probe, roster and threshold           *)
(***************************************************************************)
MatchInit ==
  /\ inputDescriptor \in Descriptors
  /\ enrolledFaces \in Rosters
  /\ threshold \in Thresholds
  /\ result = NoMatch
  /\ returned = FALSE
  /\ DialogInit
  /\ cameraSupported
  /\ EngineInit
  /\ LibIdle

CallFindBestMatch ==
  /\ ~returned
  /\ result' = findBestMatch(inputDescriptor, enrolledFaces, threshold)
  /\ returned' = TRUE
  /\ UNCHANGED <<inputDescriptor, enrolledFaces, threshold, dialogVars,
                 engineVars, libVars>>

MatchNext == CallFindBestMatch
SpecMatch == MatchInit /\ [][MatchNext]_vars

(***************************************************************************)
(* FaceScanDialog: helpers                                                 *)
(***************************************************************************)
Count(B, x) == IF x \in DOMAIN B THEN B[x] ELSE 0
Add(B, x) == B (+) SetToBag({x})
Remove(B, x) == B (-) SetToBag({x})

\* enrolledStudents.map(...) of performScan
enrolledStudents == students

\* A suspended performScan is a record of its closure (settings,
\* attendanceMarked) and of two facts about the call: the marked set the
\* parent supplied when the call began (markedAtStart) and whether
\* scanning was stopped since (cancelled).  Overtaken notes every
\* suspended performScan as cancelled.
Overtaken(B) ==
  LET S == {[r EXCEPT !.cancelled = TRUE] : r \in DOMAIN B}
  IN  [x \in S |-> Count(B, x) + Count(B, [x EXCEPT !.cancelled = FALSE])]

\* the video elements some code can still reach, given the new ref and
\* the new suspended startCamera calls; the srcObject of the others is
\* dropped from the state
Attached(src, ref, calls) ==
  [v \in VideoIds |-> IF v \in {ref} \cup {c.video : c \in DOMAIN calls}
                   THEN src[v] ELSE 0]

\* a stream id no variable refers to
FreeStreams ==
  {s \in 1..MaxStreams :
     /\ s \notin activeStreams
     /\ s # streamRef
     /\ \A v \in VideoIds : srcObject[v] # s
     /\ \A c \in DOMAIN starts : c.stream # s}
FreeTimers == {t \in TimerIds : ~intervals[t].live}
Least(S) == CHOOSE x \in S : \A y \in S : x <= y

Bump(n) == Min(n + 1, MaxScanCount)

\* The suspended performScan calls with the closure of sc, and those of
\* them whose getDescriptorFromVideoFrame is still inside loadModels; sc
\* is in the detection when there are more of the former.
Key(sc) == [sc EXCEPT !.cancelled = FALSE]
Suspended(k) == Count(scans, k) + Count(scans, [k EXCEPT !.cancelled = TRUE])
LoadingFor(k) ==
  BagCardinality([c \in {x \in Loading : x.scan = <<k>>} |-> pending[c]])
Detecting(sc) == Suspended(Key(sc)) > LoadingFor(Key(sc))

(***************************************************************************)
(* FaceScanDialog: the parts of the handlers                               *)
(***************************************************************************)
\* stopScanning
StopScanning ==
  /\ intervals' = IF scanIntervalRef # 0
                  THEN [intervals EXCEPT ![scanIntervalRef] = NoClosure]
                  ELSE intervals
  /\ scanIntervalRef' = 0
  /\ isScanning' = FALSE

\* a mutant of startScanning: without the return when a timer is held
StartScanningUnguarded(cl) ==
  /\ FreeTimers # {}
  /\ isScanning' = TRUE
  /\ scanCount' = 0
  /\ intervals' = [intervals EXCEPT ![Least(FreeTimers)] = cl]
  /\ scanIntervalRef' = Least(FreeTimers)

\* startScanning of a render whose closure is cl
StartScanning(cl) ==
  IF scanIntervalRef # 0
  THEN UNCHANGED <<intervals, scanIntervalRef, isScanning, scanCount>>
  ELSE /\ FreeTimers # {}
       /\ isScanning' = TRUE
       /\ scanCount' = 0
       /\ intervals' = [intervals EXCEPT ![Least(FreeTimers)] = cl]
       /\ scanIntervalRef' = Least(FreeTimers)

\* startCamera of a render with closure cl and facing mode facing, up to
\* its first await (requestCameraPermission)
BeginStartCamera(cl, facing) ==
  /\ isStreaming' = FALSE
  /\ IF ~cameraSupported
     THEN /\ error' = "Camera not supported in this browser"
          /\ starts' = starts
     ELSE IF videoRef' = 0
     THEN /\ error' = "Video element not available"
          /\ starts' = starts
     ELSE /\ BagCardinality(starts) < MaxStarts
          /\ error' = ""
          /\ starts' = Add(starts, [pc |-> "permission", closure |-> cl,
                                    facingMode |-> facing, video |-> 0,
                                    stream |-> 0])

(***************************************************************************)
(* FaceScanDialog: the user and the parent                                 *)
(***************************************************************************)
\* the parent sets isOpen: the video element is mounted, the cleanup of
\* the previous run of the effect runs, then the effect calls startCamera
Open ==
  /\ ~isOpen
  /\ isOpen' = TRUE
  /\ videoRef' =
       IF videoRef # 0 THEN videoRef
       ELSE Least({v \in VideoIds : \A c \in DOMAIN starts : c.video # v})
  /\ StopScanning
  /\ scans' = Overtaken(scans)
  /\ activeStreams' = activeStreams \ {streamRef}
  /\ streamRef' = 0
  /\ lastMatch' = NoDisplay
  /\ BeginStartCamera(ScanClosure, facingMode)
  /\ srcObject' = Attached(srcObject, videoRef', starts')
  /\ UNCHANGED <<attendanceMarked, scanCount, facingMode, settings,
                 cameraSupported, cooldowns, markCalls, matchVars, engineVars, libVars>>

\* cleanup, as handleClose calls it and as the effect's cleanup calls it
\* again once the parent has set isOpen to false
HandleClose ==
  /\ isOpen
  /\ isOpen' = FALSE
  /\ StopScanning
  /\ scans' = Overtaken(scans)
  /\ activeStreams' = activeStreams \ {streamRef}
  /\ streamRef' = 0
  /\ isStreaming' = FALSE
  /\ lastMatch' = NoDisplay
  /\ error' = ""
  /\ UNCHANGED <<attendanceMarked, scanCount, facingMode, settings, videoRef,
                 cameraSupported, srcObject, starts, cooldowns, markCalls,
                 matchVars, engineVars, libVars>>

\* the dialog library removes the content of a closed dialog
Unmount ==
  /\ ~isOpen
  /\ videoRef # 0
  /\ videoRef' = 0
  /\ srcObject' = Attached(srcObject, 0, starts)
  /\ UNCHANGED <<isOpen, attendanceMarked, isStreaming, isScanning, error,
                 lastMatch, scanCount, facingMode, settings, streamRef,
                 scanIntervalRef, cameraSupported, activeStreams, intervals,
                 starts, scans, cooldowns, markCalls, matchVars, engineVars, libVars>>

\* toggleCamera, then the effect on facingMode of the render that follows
ToggleCamera ==
  /\ isOpen
  /\ facingMode' = IF facingMode = "user" THEN "environment" ELSE "user"
  /\ UNCHANGED videoRef
  /\ IF videoRef # 0 /\ isStreaming
     THEN BeginStartCamera(ScanClosure, facingMode')
     ELSE UNCHANGED <<isStreaming, error, starts>>
  /\ UNCHANGED <<isOpen, attendanceMarked, isScanning, lastMatch, scanCount,
                 settings, streamRef, scanIntervalRef, cameraSupported,
                 srcObject, activeStreams, intervals, scans, cooldowns,
                 markCalls, matchVars, engineVars, libVars>>

\* a mutant of toggleScanning: pausing is the cleanup without the close
ToggleScanningCleaning ==
  /\ isOpen
  /\ isStreaming
  /\ Len(enrolledStudents) # 0
  /\ IF isScanning
     THEN /\ StopScanning
          /\ scans' = Overtaken(scans)
          /\ activeStreams' = activeStreams \ {streamRef}
          /\ streamRef' = 0
          /\ isStreaming' = FALSE
          /\ lastMatch' = NoDisplay
          /\ UNCHANGED scanCount
     ELSE /\ StartScanning(ScanClosure)
          /\ UNCHANGED <<scans, activeStreams, streamRef, isStreaming,
                         lastMatch>>
  /\ UNCHANGED <<isOpen, attendanceMarked, error, facingMode, settings,
                 videoRef, cameraSupported, srcObject, starts, cooldowns,
                 markCalls, matchVars, engineVars, libVars>>

\* toggleScanning; its button is disabled unless isStreaming
ToggleScanning ==
  /\ isOpen
  /\ isStreaming
  /\ Len(enrolledStudents) # 0
  /\ IF isScanning
     THEN /\ StopScanning
          /\ scans' = Overtaken(scans)
          /\ UNCHANGED scanCount
     ELSE /\ StartScanning(ScanClosure)
          /\ UNCHANGED scans
  /\ UNCHANGED <<isOpen, attendanceMarked, isStreaming, error, lastMatch,
                 facingMode, settings, videoRef, streamRef, cameraSupported,
                 srcObject, activeStreams, starts, cooldowns, markCalls,
                 matchVars, engineVars, libVars>>

\* handleSave of FaceSettingsDialog: onUpdateSettings is setSettings
UpdateSettings(s) ==
  /\ isOpen
  /\ s # settings
  /\ settings' = s
  /\ UNCHANGED <<isOpen, attendanceMarked, isStreaming, isScanning, error,
                 lastMatch, scanCount, facingMode, videoRef, streamRef,
                 scanIntervalRef, cameraSupported, srcObject, activeStreams,
                 intervals, starts, scans, cooldowns, markCalls, matchVars, engineVars, libVars>>

\* the collaborator records student s and passes the new marked set
RecordAttendance(s) ==
  /\ s \notin attendanceMarked
  /\ attendanceMarked' = attendanceMarked \cup {s}
  /\ UNCHANGED <<isOpen, isStreaming, isScanning, error, lastMatch, scanCount,
                 facingMode, settings, videoRef, streamRef, scanIntervalRef,
                 cameraSupported, srcObject, activeStreams, intervals, starts,
                 scans, cooldowns, markCalls, matchVars, engineVars, libVars>>

(***************************************************************************)
(* FaceScanDialog: startCamera after its awaits                            *)
(***************************************************************************)
\* requestCameraPermission settles for the suspended call c.  Granted:
\* startCamera stops streamRef's stream and calls setupVideoStream, which
\* stops the stream bound to the video element and suspends in
\* enumerateDevices/getUserMedia.  With videoRef.current null,
\* setupVideoStream throws in its try and again in its catch.
PermissionSettles(c, granted) ==
  /\ c \in DOMAIN starts
  /\ c.pc = "permission"
  /\ IF ~granted
     THEN /\ error' = "Camera permission denied"
          /\ starts' = Remove(starts, c)
          /\ srcObject' = Attached(srcObject, videoRef, starts')
          /\ UNCHANGED <<isStreaming, streamRef, activeStreams>>
     ELSE /\ streamRef' = 0
          /\ IF videoRef = 0
             THEN /\ activeStreams' = activeStreams \ {streamRef}
                  /\ error' = "Camera setup failed"
                  /\ isStreaming' = FALSE
                  /\ starts' = Remove(starts, c)
                  /\ srcObject' = Attached(srcObject, videoRef, starts')
             ELSE /\ activeStreams' =
                       activeStreams \ {streamRef, srcObject[videoRef]}
                  /\ starts' = Add(Remove(starts, c),
                                   [c EXCEPT !.pc = "acquire",
                                             !.video = videoRef])
                  /\ srcObject' = Attached([srcObject EXCEPT ![videoRef] = 0],
                                           videoRef, starts')
                  /\ UNCHANGED <<error, isStreaming>>
  /\ UNCHANGED <<isOpen, attendanceMarked, isScanning, lastMatch, scanCount,
                 facingMode, settings, videoRef, scanIntervalRef,
                 cameraSupported, intervals, scans, cooldowns, markCalls,
                 matchVars, engineVars, libVars>>

\* the catch of setupVideoStream, then the catch of startCamera, for the
\* suspended call c: whatever stream the video element holds is stopped
SetupFails(c) ==
  /\ activeStreams' = activeStreams \ {srcObject[c.video]}
  /\ starts' = Remove(starts, c)
  /\ srcObject' = Attached([srcObject EXCEPT ![c.video] = 0], videoRef, starts')
  /\ error' = "Camera setup failed"
  /\ isStreaming' = FALSE

\* getUserMedia settles for c: the stream is bound to the video element
\* and setupVideoStream waits for the metadata and the playback
AcquireSettles(c, ok) ==
  /\ c \in DOMAIN starts
  /\ c.pc = "acquire"
  /\ IF ok
     THEN /\ FreeStreams # {}
          /\ activeStreams' = activeStreams \cup {Least(FreeStreams)}
          /\ srcObject' = [srcObject EXCEPT ![c.video] = Least(FreeStreams)]
          /\ starts' = Add(Remove(starts, c),
                           [c EXCEPT !.pc = "ready",
                                     !.stream = Least(FreeStreams)])
          /\ UNCHANGED <<error, isStreaming>>
     ELSE SetupFails(c)
  /\ UNCHANGED <<isOpen, attendanceMarked, isScanning, lastMatch, scanCount,
                 facingMode, settings, videoRef, streamRef, scanIntervalRef,
                 cameraSupported, intervals, scans, cooldowns, markCalls,
                 matchVars, engineVars, libVars>>

\* the wait for the video settles for c: playback started, or an error
\* event, a playback failure or the 10 s timeout
ReadySettles(c, ok) ==
  /\ c \in DOMAIN starts
  /\ c.pc = "ready"
  /\ IF ok
     THEN /\ streamRef' = c.stream
          /\ isStreaming' = TRUE
          /\ StartScanning(c.closure)
          /\ starts' = Remove(starts, c)
          /\ srcObject' = Attached(srcObject, videoRef, starts')
          /\ UNCHANGED <<error, activeStreams>>
     ELSE /\ SetupFails(c)
          /\ UNCHANGED <<streamRef, intervals, scanIntervalRef, isScanning,
                         scanCount>>
  /\ UNCHANGED <<isOpen, attendanceMarked, lastMatch, facingMode, settings,
                 videoRef, cameraSupported, scans, cooldowns, markCalls,
                 matchVars, engineVars, libVars>>

(***************************************************************************)
(* FaceScanDialog: the scan loop                                           *)
(***************************************************************************)
\* the interval t fires: performScan of the closure up to its await, and
\* setScanCount when performScan returned at once.  The await is the one
\* of getDescriptorFromVideoFrame, which waits in loadModels first when
\* the models are not loaded.
IntervalFires(t) ==
  /\ intervals[t].live
  /\ IF videoRef = 0 \/ ~intervals[t].isStreaming
     THEN /\ scanCount' = Bump(scanCount)
          /\ UNCHANGED <<scans, pending>>
     ELSE LET sc == [settings |-> intervals[t].settings,
                     attendanceMarked |-> intervals[t].attendanceMarked,
                     markedAtStart |-> attendanceMarked,
                     cancelled |-> FALSE]
          IN  /\ BagCardinality(scans) < MaxScans
              /\ scans' = Add(scans, sc)
              /\ IF modelsLoaded
                 THEN UNCHANGED pending
                 ELSE /\ BagCardinality(pending) < MaxCalls
                      /\ pending' =
                           Add(pending,
                               LoadCall("getDescriptorFromVideoFrame", <<sc>>))
              /\ UNCHANGED scanCount
  /\ UNCHANGED <<isOpen, attendanceMarked, isStreaming, isScanning, error,
                 lastMatch, facingMode, settings, videoRef, streamRef,
                 scanIntervalRef, cameraSupported, srcObject, activeStreams,
                 intervals, starts, cooldowns, markCalls, matchVars,
                 modelsLoaded, completion, libVars>>

\* performScan from line 449 on, for a descriptor and a closure
ScanMatch(descriptor, cl) ==
  findBestMatch(descriptor, enrolledStudents, cl.settings.confidenceThreshold)
Displays(match, cl) ==
  match # NoMatch /\ match.confidence > cl.settings.confidenceThreshold
AutoMarks(match, cl) ==
  /\ Displays(match, cl)
  /\ match.confidence > cl.settings.autoMarkThreshold
  /\ match.studentId \notin cl.attendanceMarked

\* getDescriptorFromVideoFrame settles for the suspended performScan sc
\* with a descriptor or with null; then setScanCount.  What the step does
\* to the engine is said where ScanSettles is used.
ScanSettles(sc, descriptor) ==
  /\ sc \in DOMAIN scans
  /\ scanCount' = Bump(scanCount)
  /\ LET match == ScanMatch(descriptor, sc)
     IN  IF descriptor = NoDescriptor
         THEN /\ scans' = Remove(scans, sc)
              /\ UNCHANGED <<lastMatch, markCalls, intervals, scanIntervalRef,
                             isScanning, cooldowns>>
         ELSE IF ~Displays(match, sc)
         THEN /\ lastMatch' = NoDisplay
              /\ scans' = Remove(scans, sc)
              /\ UNCHANGED <<markCalls, intervals, scanIntervalRef,
                             isScanning, cooldowns>>
         ELSE /\ lastMatch' = [student |-> match.studentId,
                               confidence |-> match.confidence]
              /\ IF AutoMarks(match, sc)
                 THEN /\ markCalls[match.studentId] < MaxMarks
                      /\ BagCardinality(cooldowns) < MaxCooldowns
                      /\ markCalls' = [markCalls EXCEPT
                                         ![match.studentId] = @ + 1]
                      /\ StopScanning
                      /\ scans' = Overtaken(Remove(scans, sc))
                      /\ cooldowns' = Add(cooldowns,
                                          [isStreaming |-> TRUE,
                                           settings |-> sc.settings,
                                           attendanceMarked |-> sc.attendanceMarked,
                                           live |-> TRUE,
                                           student |-> match.studentId])
                 ELSE /\ scans' = Remove(scans, sc)
                      /\ UNCHANGED <<markCalls, intervals, scanIntervalRef,
                                     isScanning, cooldowns>>
  /\ UNCHANGED <<isOpen, attendanceMarked, isStreaming, error, facingMode,
                 settings, videoRef, streamRef, cameraSupported, srcObject,
                 activeStreams, starts, matchVars>>

\* the cooldown timeout cd fires: if (isStreaming) startScanning(), both
\* of the closure of the performScan that set it
CooldownFires(cd) ==
  /\ cd \in DOMAIN cooldowns
  /\ cooldowns' = Remove(cooldowns, cd)
  /\ IF cd.isStreaming
     THEN StartScanning([isStreaming |-> cd.isStreaming,
                         settings |-> cd.settings,
                         attendanceMarked |-> cd.attendanceMarked,
                         live |-> TRUE])
     ELSE UNCHANGED <<intervals, scanIntervalRef, isScanning, scanCount>>
  /\ UNCHANGED <<isOpen, attendanceMarked, isStreaming, error, lastMatch,
                 facingMode, settings, videoRef, streamRef, cameraSupported,
                 srcObject, activeStreams, starts, scans, markCalls,
                 matchVars, engineVars, libVars>>

\* the detection of getDescriptorFromVideoFrame settles for sc
ScanDetects(sc, descriptor) ==
  /\ Detecting(sc)
  /\ ScanSettles(sc, descriptor)
  /\ UNCHANGED <<engineVars, libVars>>

(***************************************************************************)
(* engine.ts: loadModels and getDescriptorFrom... as the components call   *)
(* them                                                                    *)
(***************************************************************************)
\* loadModels called by CameraTestDialog or FaceCaptureDialog, up to its
\* first await
CallLoadModels ==
  /\ IF modelsLoaded
     THEN /\ completion' = Returned("loadModels", NoDescriptor, "loaded")
          /\ UNCHANGED pending
     ELSE /\ BagCardinality(pending) < MaxCalls
          /\ pending' = Add(pending, LoadCall("loadModels", <<>>))
          /\ UNCHANGED completion
  /\ UNCHANGED <<modelsLoaded, matchVars, dialogVars, libVars>>

\* getDescriptorFromVideoFrame or getDescriptorFromImageElement called by
\* a component other than the scan dialog, up to its first await
CallGetDescriptor(fn) ==
  /\ BagCardinality(pending) < MaxCalls
  /\ pending' = Add(pending, IF modelsLoaded THEN DetectCall(fn)
                                             ELSE LoadCall(fn, <<>>))
  /\ UNCHANGED <<modelsLoaded, completion, matchVars, dialogVars, libVars>>

\* the Promise.all of the source that call c is loading settles, loaded
\* being the nets that arrived.  All three: the flag is set and loadModels
\* returns.  Otherwise the loop goes on, and after the last source the
\* outer catch clears the flag and throws; getDescriptorFrom... catches
\* that and returns null, which performScan takes as "no face".
SourceSettles(c, loaded) ==
  /\ c \in DOMAIN pending
  /\ c.pc = "load"
  /\ IF SourceLoads(loaded)
     THEN /\ modelsLoaded' = TRUE
          /\ IF c.fn = "loadModels"
             THEN /\ pending' = Remove(pending, c)
                  /\ completion' = Returned(c.fn, NoDescriptor, "loaded")
             ELSE IF c.scan = <<>>
             THEN /\ pending' = Add(Remove(pending, c), [c EXCEPT !.pc = "detect"])
                  /\ UNCHANGED completion
             ELSE /\ pending' = Remove(pending, c)
                  /\ UNCHANGED completion
          /\ UNCHANGED dialogVars
     ELSE IF Source(c) < Len(modelSources)
     THEN /\ pending' = Add(Remove(pending, c),
                            [c EXCEPT !.tried = Append(@, NextSource(Source(c)))])
          /\ UNCHANGED <<modelsLoaded, completion, dialogVars>>
     ELSE /\ modelsLoaded' = FlagOnFailure
          /\ pending' = Remove(pending, c)
          /\ IF c.fn = "loadModels"
             THEN /\ completion' = Thrown(c.fn, "load")
                  /\ UNCHANGED dialogVars
             ELSE IF c.scan = <<>>
             THEN /\ completion' = OnError(c.fn, "load")
                  /\ UNCHANGED dialogVars
             ELSE /\ UNCHANGED completion
                  /\ \E sc \in DOMAIN scans :
                       /\ Key(sc) = c.scan[1]
                       /\ ScanSettles(sc, OnError(c.fn, "load").value)
  /\ UNCHANGED <<matchVars, libVars>>

\* the detection settles for call c of another component
DetectSettles(c, detection) ==
  /\ c \in DOMAIN pending
  /\ c.pc = "detect"
  /\ pending' = Remove(pending, c)
  /\ completion' = Extracted(c.fn, detection)
  /\ UNCHANGED <<modelsLoaded, matchVars, dialogVars, libVars>>

(***************************************************************************)
(* engine.ts: euclideanDistance and stopVideoStream; requestCameraPermission *)
(***************************************************************************)
\* euclideanDistance(Left(k), Right(k)) is called
CallEuclideanDistance(k) ==
  /\ measured[k].pc = "idle"
  /\ measured' = [measured EXCEPT ![k] = DistanceCall(Left(k), Right(k))]
  /\ UNCHANGED <<batch, dashboard, vecA, vecB, capture, tracks, stopCalls, stopResult,
                 permissionsApi, queryOutcome, acquireOutcome, permission,
                 matchVars, dialogVars, engineVars>>

\* stopVideoStream(stream) is called
StopVideoStream ==
  /\ stopCalls < MaxStops
  /\ tracks' = StopTracks(tracks)
  /\ stopCalls' = stopCalls + 1
  /\ stopResult' = "returned"
  /\ UNCHANGED <<batch, dashboard, capture, vecA, vecB, measured, permissionsApi, queryOutcome,
                 acquireOutcome, permission, matchVars, dialogVars,
                 engineVars>>

\* requestCameraPermission is called, up to its first await: the query of
\* the permissions API if the browser has one, getUserMedia otherwise
CallRequestCameraPermission ==
  /\ permission.pc = "idle"
  /\ permission' = IF permissionsApi
                   THEN [permission EXCEPT !.pc = "query"]
                   ELSE [permission EXCEPT !.pc = "acquire",
                                           !.attempted = TRUE]
  /\ UNCHANGED <<batch, dashboard, capture, vecA, vecB, measured, tracks, stopCalls,
                 stopResult, permissionsApi, queryOutcome, acquireOutcome,
                 matchVars, dialogVars, engineVars>>

\* navigator.permissions.query settles: 'denied' returns at once, a
\* rejection goes to the catch, anything else goes on to getUserMedia
QuerySettles ==
  /\ permission.pc = "query"
  /\ permission' =
       CASE queryOutcome = "denied" ->
              [permission EXCEPT
                 !.pc = "returned", !.granted = FALSE,
                 !.error = "Camera permission denied. Please enable camera access in browser settings."]
         [] queryOutcome = "throws" ->
              [permission EXCEPT
                 !.pc = "returned", !.granted = FALSE,
                 !.error = PermissionError("TypeError")]
         [] OTHER ->
              [permission EXCEPT !.pc = "acquire", !.attempted = TRUE]
  /\ UNCHANGED <<batch, dashboard, capture, vecA, vecB, measured, tracks, stopCalls,
                 stopResult, permissionsApi, queryOutcome, acquireOutcome,
                 matchVars, dialogVars, engineVars>>

\* getUserMedia({video: true}) settles: the stream is stopped and the
\* answer is granted, or the catch maps the error
ProbeSettles ==
  /\ permission.pc = "acquire"
  /\ permission' =
       IF acquireOutcome = "stream"
       THEN [permission EXCEPT !.pc = "returned", !.granted = TRUE,
                               !.probe = ProbeStopped(ProbeStream)]
       ELSE [permission EXCEPT !.pc = "returned", !.granted = FALSE,
                               !.error = PermissionError(acquireOutcome)]
  /\ UNCHANGED <<batch, dashboard, capture, vecA, vecB, measured, tracks, stopCalls,
                 stopResult, permissionsApi, queryOutcome, acquireOutcome,
                 matchVars, dialogVars, engineVars>>

(***************************************************************************)
(* FaceCaptureDialog.tsx: the session of the capture dialog, with          *)
(* setupVideoStream step by step.  One startCamera is in flight at a time: *)
(* the dialog is opened and the camera flipped only when none is.          *)
(***************************************************************************)
notCapture ==
  <<batch, dashboard, vecA, vecB, measured, tracks, stopCalls, stopResult, permissionsApi,
    queryOutcome, acquireOutcome, permission, matchVars, dialogVars>>

\* the catch of startCamera: setError(errorMessage), setIsStreaming(false)
StartCatch(cap, message) ==
  [cap EXCEPT !.error = message, !.isStreaming = FALSE, !.pc = "idle"]

\* the catch of setupVideoStream, then the catch of startCamera: the stream
\* bound to the video element is stopped and unbound, the error rethrown
SetupCatch(cap, message) ==
  StartCatch([cap EXCEPT !.active = @ \ {cap.srcObject},
                         !.srcObject = 0,
                         !.timeout = FALSE],
             message)

\* the dialog is opened: a new video element is rendered, the cleanup of
\* the previous isOpen effect runs and the effect arms the 100 ms timer
\* that calls the startCamera of this render
CaptureOpen ==
  /\ ~capture.isOpen
  /\ capture.pc = "idle"
  /\ capture.started < MaxCaptureStarts
  /\ capture' = [capture EXCEPT !.isOpen = TRUE, !.pc = "delay",
                                !.srcObject = 0, !.started = @ + 1,
                                !.closure = capture.isStreaming,
                                !.active = @ \ {capture.streamRef},
                                !.streamRef = 0,
                                !.isStreaming = FALSE,
                                !.faceDetected = FALSE,
                                !.error = ""]
  /\ UNCHANGED <<notCapture, engineVars>>

\* the timer fires: startCamera up to await requestCameraPermission()
CaptureStartCamera ==
  /\ capture.pc = "delay"
  /\ capture' =
       IF ~capture.isOpen
       THEN StartCatch(capture, "Video element not available")
       ELSE IF ~cameraSupported
       THEN StartCatch(capture, "Camera not supported")
       ELSE [capture EXCEPT !.error = "", !.isStreaming = FALSE,
                            !.pc = "permission"]
  /\ UNCHANGED <<notCapture, engineVars>>

\* toggleCamera while streaming: the facingMode effect calls startCamera
CaptureToggleCamera ==
  /\ capture.isOpen
  /\ capture.isStreaming
  /\ capture.pc = "idle"
  /\ capture.started < MaxCaptureStarts
  /\ capture' = [capture EXCEPT !.error = "", !.isStreaming = FALSE,
                                !.pc = "permission", !.started = @ + 1,
                                !.closure = capture.isStreaming]
  /\ UNCHANGED <<notCapture, engineVars>>

\* requestCameraPermission settles: startCamera stops streamRef's stream
\* and calls setupVideoStream, which stops the stream bound to the element
\* and suspends in enumerateDevices/getUserMedia
CapturePermissionSettles(granted) ==
  /\ capture.pc = "permission"
  /\ capture' =
       IF ~granted
       THEN StartCatch(capture, "Camera permission denied")
       ELSE LET released == [capture EXCEPT !.active = @ \ {capture.streamRef},
                                            !.streamRef = 0]
            IN  IF ~capture.isOpen
                THEN StartCatch(released, "Camera setup failed")
                ELSE [released EXCEPT !.active = @ \ {capture.srcObject},
                                      !.srcObject = 0,
                                      !.pc = "acquire"]
  /\ UNCHANGED <<notCapture, engineVars>>

\* getUserMedia settles.  A stream: it is bound to the video element, the
\* 10 s timeout is armed and the wait for the metadata begins, or, with
\* readyState >= 1, the timeout is cleared and play() is called at once
CaptureAcquireSettles(ok, ready) ==
  /\ capture.pc = "acquire"
  /\ capture' =
       IF ~ok
       THEN SetupCatch(capture, "Camera setup failed")
       ELSE [capture EXCEPT !.active = @ \cup {capture.started},
                            !.srcObject = capture.started,
                            !.timeout = ~ready,
                            !.pc = IF ready THEN "play" ELSE "metadata"]
  /\ UNCHANGED <<notCapture, engineVars>>

\* onLoadedMetadata: the timeout is cleared, both listeners are removed
\* and play() is called
CaptureLoadedMetadata ==
  /\ capture.pc = "metadata"
  /\ capture' = [capture EXCEPT !.timeout = FALSE, !.pc = "play"]
  /\ UNCHANGED <<notCapture, engineVars>>

\* onError: the wait rejects
CaptureErrorEvent ==
  /\ capture.pc = "metadata"
  /\ capture' =
       SetupCatch(capture,
                  "Camera setup failed: Video failed to load - check camera permissions")
  /\ UNCHANGED <<notCapture, engineVars>>

\* the 10 s timeout fires: the wait rejects
CaptureTimeoutFires ==
  /\ capture.timeout
  /\ capture' =
       SetupCatch(capture,
                  "Camera setup failed: Video setup timeout - camera may not be accessible")
  /\ UNCHANGED <<notCapture, engineVars>>

\* the promise of play() settles.  Fulfilled: setupVideoStream returns the
\* stream, startCamera keeps it in streamRef, sets isStreaming and awaits
\* loadModels()
CapturePlaySettles(ok) ==
  /\ capture.pc = "play"
  /\ capture' =
       IF ~ok
       THEN SetupCatch(capture, "Camera setup failed: Video playback failed")
       ELSE [capture EXCEPT !.streamRef = capture.started,
                            !.isStreaming = TRUE,
                            !.pc = "models"]
  /\ UNCHANGED <<notCapture, engineVars>>

\* loadModels() settles: the 100 ms timer that calls startFaceDetection is
\* armed, or the catch of startCamera takes the error of loadModels
CaptureModelsSettle(ok) ==
  /\ capture.pc = "models"
  /\ modelsLoaded => ok
  /\ modelsLoaded' = IF ok THEN TRUE ELSE FlagOnFailure
  /\ capture' =
       IF ok THEN [capture EXCEPT !.pc = "idle",
                                  !.loops =
                                    Add(@, [isStreaming |-> capture.closure,
                                            pc |-> "armed"])]
       ELSE StartCatch(capture, "Unable to load face detection models")
  /\ UNCHANGED <<notCapture, pending, completion>>

\* the timer of loop l fires (the 100 ms of startCamera, the 500 ms of the
\* loop): detectFace up to its await, or its return
DetectFace(l) ==
  /\ l \in DOMAIN capture.loops
  /\ l.pc = "armed"
  /\ capture' =
       IF ~capture.isOpen \/ ~l.isStreaming
       THEN [capture EXCEPT !.loops = Remove(@, l)]
       ELSE [capture EXCEPT
               !.loops = Add(Remove(@, l), [l EXCEPT !.pc = "detect"])]
  /\ UNCHANGED <<notCapture, engineVars>>

\* getDescriptorFromVideoFrame settles for loop l: setFaceDetected, and the
\* 500 ms timer is armed
PresenceSettles(l, descriptor) ==
  /\ l \in DOMAIN capture.loops
  /\ l.pc = "detect"
  /\ capture' = [capture EXCEPT
                   !.faceDetected = (descriptor # NoDescriptor),
                   !.loops = Add(Remove(@, l), [l EXCEPT !.pc = "armed"])]
  /\ UNCHANGED <<notCapture, engineVars>>

\* a mutant of line 157: a missing face is not noticed
NoFaceIgnored(descriptor) == FALSE

\* the test of capturePhoto on line 157
NoFace(descriptor) == descriptor = NoDescriptor

\* the finally of capturePhoto
ShotEnds(cap) == [cap EXCEPT !.isCapturing = FALSE, !.shot = NoShot]

\* the Capture button, enabled by faceDetected and not isCapturing:
\* capturePhoto up to await getDescriptorFromVideoFrame
CallCapturePhoto ==
  /\ capture.isOpen
  /\ capture.faceDetected
  /\ ~capture.isCapturing
  /\ capture.shots < MaxShots
  /\ capture' =
       IF capture.streamRef = 0
       THEN [capture EXCEPT !.shots = @ + 1]
       ELSE [capture EXCEPT
               !.shots = @ + 1, !.isCapturing = TRUE, !.error = "",
               !.shot = [pc |-> "extract", id |-> capture.shots + 1,
                         descriptor |-> NoDescriptor]]
  /\ UNCHANGED <<notCapture, engineVars>>

\* getDescriptorFromVideoFrame settles for capturePhoto: without a face the
\* error is shown and capturePhoto returns, with one capturePhoto awaits
\* captureFrameAsBlob
ShotExtractSettles(descriptor) ==
  /\ capture.shot.pc = "extract"
  /\ capture' =
       IF NoFace(descriptor)
       THEN ShotEnds([capture EXCEPT
              !.error = "No face detected. Please position your face clearly in the frame."])
       ELSE [capture EXCEPT !.shot.pc = "blob",
                            !.shot.descriptor = descriptor]
  /\ UNCHANGED <<notCapture, engineVars>>

\* captureFrameAsBlob settles: onCapture(descriptor, imageBlob) and
\* handleClose(), or the catch; without a video element it throws
ShotBlobSettles(ok) ==
  /\ capture.shot.pc = "blob"
  /\ capture' =
       IF ok /\ capture.isOpen
       THEN ShotEnds([capture EXCEPT
              !.delivered = Append(@, [shot |-> capture.shot.id,
                                       descriptor |-> capture.shot.descriptor]),
              !.active = @ \ {capture.streamRef},
              !.streamRef = 0,
              !.isStreaming = FALSE,
              !.faceDetected = FALSE,
              !.error = "",
              !.isOpen = FALSE])
       ELSE ShotEnds([capture EXCEPT
              !.error = "Failed to capture face data. Please try again."])
  /\ UNCHANGED <<notCapture, engineVars>>

\* handleClose, or the cleanup of the isOpen effect
CaptureClose ==
  /\ capture.isOpen
  /\ capture' = [capture EXCEPT !.active = @ \ {capture.streamRef},
                                !.streamRef = 0,
                                !.isStreaming = FALSE,
                                !.faceDetected = FALSE,
                                !.error = "",
                                !.isOpen = FALSE]
  /\ UNCHANGED <<notCapture, engineVars>>

(***************************************************************************)
(* BatchEnrollDialog.tsx.  The students prop does not change during the    *)
(* model: student i + 1 is unenrolledStudents[i].  The capture dialog is   *)
(* modal: while it is shown nothing of the batch dialog is clicked.        *)
(***************************************************************************)
notBatch ==
  <<capture, dashboard, vecA, vecB, measured, tracks, stopCalls, stopResult,
    permissionsApi, queryOutcome, acquireOutcome, permission, matchVars,
    dialogVars, engineVars>>

\* handleClose of the batch dialog; onClose makes the parent close it
BatchHandleClose(b) ==
  [b EXCEPT !.currentStudentIndex = 0, !.enrolledStudents = {},
            !.showCapture = FALSE, !.isOpen = FALSE]

\* the parent opens the dialog
BatchOpen ==
  /\ ~batch.isOpen
  /\ batch.sessions < MaxSessions
  /\ batch' = [batch EXCEPT !.isOpen = TRUE, !.sessions = @ + 1]
  /\ UNCHANGED notBatch

\* the Capture Face button: setShowCapture(true)
BatchShowCapture ==
  /\ batch.isOpen
  /\ ~batch.isCapturing
  /\ ~batch.showCapture
  /\ batch.currentStudentIndex < batch.n
  /\ batch' = [batch EXCEPT !.showCapture = TRUE]
  /\ UNCHANGED notBatch

\* the capture dialog is cancelled: its onClose
BatchCaptureClosed ==
  /\ batch.isOpen
  /\ batch.showCapture
  /\ batch' = [batch EXCEPT !.showCapture = FALSE]
  /\ UNCHANGED notBatch

\* onCapture of the capture dialog: handleFaceCapture up to its first
\* await, then the handleClose of the capture dialog
HandleFaceCapture ==
  /\ batch.isOpen
  /\ batch.showCapture
  /\ batch.calls < MaxEnrollCalls
  /\ batch' =
       IF batch.currentStudentIndex >= batch.n
       THEN [batch EXCEPT !.showCapture = FALSE]
       ELSE [batch EXCEPT
               !.isCapturing = TRUE,
               !.showCapture = FALSE,
               !.calls = @ + 1,
               !.saving = Add(@, [student |-> batch.currentStudentIndex + 1,
                                  index |-> batch.currentStudentIndex,
                                  pc |-> "upload"])]
  /\ UNCHANGED notBatch

\* the upload of the image settles for call c; its error is tolerated
BatchUploadSettles(c) ==
  /\ c \in DOMAIN batch.saving
  /\ c.pc = "upload"
  /\ batch' = [batch EXCEPT
                 !.saving = Add(Remove(@, c), [c EXCEPT !.pc = "update"])]
  /\ UNCHANGED notBatch

\* the finally of handleFaceCapture
CaptureHandled(b, c) ==
  [b EXCEPT !.saving = Remove(@, c), !.isCapturing = FALSE,
            !.showCapture = FALSE]

\* the update of the student row settles for call c
BatchUpdateSettles(c, ok) ==
  /\ c \in DOMAIN batch.saving
  /\ c.pc = "update"
  /\ batch' =
       IF ~ok THEN CaptureHandled(batch, c)
       ELSE IF c.index < batch.n - 1
       THEN CaptureHandled(
              [batch EXCEPT !.persisted = @ \cup {c.student},
                            !.enrolledStudents = @ \cup {c.student},
                            !.currentStudentIndex = @ + 1], c)
       ELSE CaptureHandled(
              BatchHandleClose(
                [batch EXCEPT !.persisted = @ \cup {c.student},
                              !.completed = @ + 1]), c)
  /\ UNCHANGED notBatch

\* the Skip button
SkipStudent ==
  /\ batch.isOpen
  /\ ~batch.isCapturing
  /\ ~batch.showCapture
  /\ batch.currentStudentIndex < batch.n
  /\ batch' =
       IF batch.currentStudentIndex < batch.n - 1
       THEN [batch EXCEPT !.currentStudentIndex = @ + 1]
       ELSE BatchHandleClose(batch)
  /\ UNCHANGED notBatch

\* the batch dialog is dismissed: onOpenChange
BatchClose ==
  /\ batch.isOpen
  /\ ~batch.showCapture
  /\ batch' = BatchHandleClose(batch)
  /\ UNCHANGED notBatch

(***************************************************************************)
(* TeacherDashboard.tsx: the attendance records and the props it hands to  *)
(* FaceScanDialog                                                          *)
(***************************************************************************)
notDashboard ==
  <<capture, vecA, vecB, measured, tracks, stopCalls, stopResult,
    permissionsApi, queryOutcome, acquireOutcome, permission, batch>>

\* a mutant of the attendanceMarked prop: only the students recorded as
\* present
MarkedSetPresent(att) == {a.student_id : a \in {r \in att : r.status = "present"}}

\* the attendanceMarked prop: new Set(attendance.map(a => a.student_id))
MarkedSet(att) == {a.student_id : a \in att}

\* updateAttendance
UpdateAttendance(att, studentId, status) ==
  {IF r.student_id = studentId THEN [r EXCEPT !.status = status] ELSE r :
     r \in att}

\* a status button of the dashboard: updateAttendance, and the render that
\* follows hands the dialog the new marked set
DashUpdateAttendance(s, status) ==
  /\ dashboard' = [dashboard EXCEPT
                     !.attendance = UpdateAttendance(@, s, status)]
  /\ dashboard' # dashboard
  /\ attendanceMarked' = MarkedSet(dashboard'.attendance)
  /\ UNCHANGED <<isOpen, isStreaming, isScanning, error, lastMatch, scanCount,
                 facingMode, settings, videoRef, streamRef, scanIntervalRef,
                 cameraSupported, srcObject, activeStreams, intervals, starts,
                 scans, cooldowns, markCalls, matchVars, engineVars,
                 notDashboard>>

\* fetchStudents settles again (onStudentAdded) with the same students:
\* setStudents and setAttendance are made from the same data; on an error
\* neither is called
DashFetchSettles(ok) ==
  /\ dashboard' = IF ok THEN [dashboard EXCEPT !.attendance = Fetched]
                  ELSE dashboard
  /\ attendanceMarked' = MarkedSet(dashboard'.attendance)
  /\ UNCHANGED <<isOpen, isStreaming, isScanning, error, lastMatch, scanCount,
                 facingMode, settings, videoRef, streamRef, scanIntervalRef,
                 cameraSupported, srcObject, activeStreams, intervals, starts,
                 scans, cooldowns, markCalls, matchVars, engineVars,
                 notDashboard>>

\* the detection settles for sc in the dialog of the dashboard, whose
\* onMarkAttendance is updateAttendance
DashScanDetects(sc, descriptor) ==
  /\ Detecting(sc)
  /\ ScanSettles(sc, descriptor)
  /\ dashboard' =
       IF markCalls' = markCalls THEN dashboard
       ELSE [dashboard EXCEPT
               !.attendance =
                 UpdateAttendance(@, CHOOSE s \in Students :
                                       markCalls'[s] # markCalls[s],
                                     "present")]
  /\ UNCHANGED <<engineVars, notDashboard>>

(***************************************************************************)
(* Specifications of the dialog.  Next is every step of the program.       *)
(* SpecCamera and SpecScan are Next in two environments:                   *)
(*   SpecCamera  any interleaving of camera starts, with failures; the     *)
(*               scan interval is set and cleared but no tick is taken;    *)
(*   SpecScan    the scan loop; camera calls succeed, the facing mode is   *)
(*               left alone and the dialog is opened only when no start    *)
(*               is suspended; the models were loaded before the session;  *)
(*   SpecScanLoad  the scan loop of a session that starts with the models  *)
(*               not loaded and is not closed;                             *)
(*   SpecEngine  the other components calling the engine, the dialog       *)
(*               being closed.                                             *)
(* SpecDistance, SpecStop and SpecRequest call euclideanDistance,          *)
(* stopVideoStream and requestCameraPermission on every input drawn;       *)
(* SpecCapture is the session of FaceCaptureDialog.                        *)
(***************************************************************************)
Init == MatchIdle /\ DialogInit /\ EngineInit /\ LibIdle

Next ==
  \/ Open
  \/ HandleClose
  \/ Unmount
  \/ ToggleCamera
  \/ ToggleScanning
  \/ \E s \in SettingsChoices : UpdateSettings(s)
  \/ \E s \in Present : RecordAttendance(s)
  \/ \E c \in DOMAIN starts, granted \in BOOLEAN : PermissionSettles(c, granted)
  \/ \E c \in DOMAIN starts, ok \in BOOLEAN : AcquireSettles(c, ok)
  \/ \E c \in DOMAIN starts, ok \in BOOLEAN : ReadySettles(c, ok)
  \/ \E t \in TimerIds : IntervalFires(t)
  \/ \E sc \in DOMAIN scans, d \in Probes \cup {NoDescriptor} : ScanDetects(sc, d)
  \/ \E cd \in DOMAIN cooldowns : CooldownFires(cd)
  \/ CallLoadModels
  \/ \E fn \in DescriptorFns : CallGetDescriptor(fn)
  \/ \E c \in DOMAIN pending, loaded \in SUBSET Nets : SourceSettles(c, loaded)
  \/ \E c \in DOMAIN pending, detection \in Detections : DetectSettles(c, detection)
  \/ \E k \in Pairs : CallEuclideanDistance(k)
  \/ StopVideoStream
  \/ CallRequestCameraPermission
  \/ QuerySettles
  \/ ProbeSettles
  \/ CaptureOpen
  \/ CaptureStartCamera
  \/ CaptureToggleCamera
  \/ \E granted \in BOOLEAN : CapturePermissionSettles(granted)
  \/ \E ok \in BOOLEAN, ready \in BOOLEAN : CaptureAcquireSettles(ok, ready)
  \/ CaptureLoadedMetadata
  \/ CaptureErrorEvent
  \/ CaptureTimeoutFires
  \/ \E ok \in BOOLEAN : CapturePlaySettles(ok)
  \/ \E ok \in BOOLEAN : CaptureModelsSettle(ok)
  \/ CaptureClose
  \/ \E l \in DOMAIN capture.loops : DetectFace(l)
  \/ \E l \in DOMAIN capture.loops, d \in Probes \cup {NoDescriptor} :
       PresenceSettles(l, d)
  \/ CallCapturePhoto
  \/ \E d \in Probes \cup {NoDescriptor} : ShotExtractSettles(d)
  \/ \E ok \in BOOLEAN : ShotBlobSettles(ok)
  \/ BatchOpen
  \/ BatchShowCapture
  \/ BatchCaptureClosed
  \/ HandleFaceCapture
  \/ \E c \in DOMAIN batch.saving : BatchUploadSettles(c)
  \/ \E c \in DOMAIN batch.saving, ok \in BOOLEAN : BatchUpdateSettles(c, ok)
  \/ SkipStudent
  \/ BatchClose
  \/ \E s \in Students, status \in Statuses : DashUpdateAttendance(s, status)
  \/ \E ok \in BOOLEAN : DashFetchSettles(ok)
  \/ \E sc \in DOMAIN scans, d \in Probes \cup {NoDescriptor} : DashScanDetects(sc, d)

Spec == Init /\ [][Next]_vars

CameraNext ==
  \/ Open
  \/ HandleClose
  \/ Unmount
  \/ ToggleCamera
  \/ ToggleScanning
  \/ \E c \in DOMAIN starts, granted \in BOOLEAN : PermissionSettles(c, granted)
  \/ \E c \in DOMAIN starts, ok \in BOOLEAN : AcquireSettles(c, ok)
  \/ \E c \in DOMAIN starts, ok \in BOOLEAN : ReadySettles(c, ok)

SpecCamera == Init /\ [][CameraNext]_vars

SingleStart == BagCardinality(starts') <= 1

ScanNext ==
  \/ Open /\ SingleStart
  \/ HandleClose
  \/ Unmount
  \/ ToggleScanning
  \/ \E s \in SettingsChoices : UpdateSettings(s)
  \/ \E s \in Present : RecordAttendance(s)
  \/ \E c \in DOMAIN starts : PermissionSettles(c, TRUE)
  \/ \E c \in DOMAIN starts : AcquireSettles(c, TRUE)
  \/ \E c \in DOMAIN starts : ReadySettles(c, TRUE)
  \/ \E t \in TimerIds : IntervalFires(t)
  \/ \E sc \in DOMAIN scans, d \in Probes \cup {NoDescriptor} : ScanDetects(sc, d)
  \/ \E cd \in DOMAIN cooldowns : CooldownFires(cd)

\* an earlier session or another component has loaded the models
ScanInit ==
  /\ MatchIdle
  /\ DialogInit
  /\ modelsLoaded = TRUE
  /\ pending = EmptyBag
  /\ completion = NoCompletion
  /\ LibIdle

SpecScan == ScanInit /\ [][ScanNext]_vars

\* the scan timer under camera restarts, one at a time, failing starts,
\* pauses, cooldowns and closes, with the settings and the marked set left
\* as they are
TimerNext ==
  \/ Open /\ SingleStart
  \/ HandleClose
  \/ ToggleCamera /\ SingleStart
  \/ ToggleScanning
  \/ \E c \in DOMAIN starts, granted \in BOOLEAN : PermissionSettles(c, granted)
  \/ \E c \in DOMAIN starts, ok \in BOOLEAN : AcquireSettles(c, ok)
  \/ \E c \in DOMAIN starts, ok \in BOOLEAN : ReadySettles(c, ok)
  \/ \E t \in TimerIds : IntervalFires(t)
  \/ \E sc \in DOMAIN scans, d \in Probes \cup {NoDescriptor} : ScanDetects(sc, d)
  \/ \E cd \in DOMAIN cooldowns : CooldownFires(cd)

SpecTimer == ScanInit /\ [][TimerNext]_vars

ScanLoadNext ==
  \/ Open /\ SingleStart
  \/ ToggleScanning
  \/ \E c \in DOMAIN starts : PermissionSettles(c, TRUE)
  \/ \E c \in DOMAIN starts : AcquireSettles(c, TRUE)
  \/ \E c \in DOMAIN starts : ReadySettles(c, TRUE)
  \/ \E t \in TimerIds : IntervalFires(t)
  \/ \E c \in DOMAIN pending, loaded \in SUBSET Nets : SourceSettles(c, loaded)
  \/ \E sc \in DOMAIN scans, d \in Probes \cup {NoDescriptor} : ScanDetects(sc, d)
  \/ \E cd \in DOMAIN cooldowns : CooldownFires(cd)

SpecScanLoad == Init /\ [][ScanLoadNext]_vars

EngineNext ==
  \/ CallLoadModels
  \/ \E fn \in DescriptorFns : CallGetDescriptor(fn)
  \/ \E c \in DOMAIN pending, loaded \in SUBSET Nets : SourceSettles(c, loaded)
  \/ \E c \in DOMAIN pending, detection \in Detections : DetectSettles(c, detection)

SpecEngine == Init /\ [][EngineNext]_vars

\* euclideanDistance on every pair of vectors
DistanceInit ==
  /\ MatchIdle /\ DialogInit /\ cameraSupported /\ EngineInit
  /\ BatchIdle /\ DashboardIdle
  /\ CaptureInit /\ StopIdle /\ RequestIdle
  /\ vecA \in Descriptors
  /\ vecB \in Descriptors
  /\ measured = NotMeasured

DistanceNext == \E k \in Pairs : CallEuclideanDistance(k)
SpecDistance == DistanceInit /\ [][DistanceNext]_vars

\* stopVideoStream on every stream, called again and again
StopInit ==
  /\ MatchIdle /\ DialogInit /\ cameraSupported /\ EngineInit
  /\ BatchIdle /\ DashboardIdle
  /\ CaptureInit /\ DistanceIdle /\ RequestIdle
  /\ tracks \in MediaStreams
  /\ stopCalls = 0
  /\ stopResult = "none"

StopNext == StopVideoStream
SpecStop == StopInit /\ [][StopNext]_vars

\* requestCameraPermission in every browser that passed checkCameraSupport
RequestInit ==
  /\ MatchIdle /\ DialogInit /\ cameraSupported /\ EngineInit
  /\ BatchIdle /\ DashboardIdle
  /\ CaptureInit /\ DistanceIdle /\ StopIdle
  /\ permissionsApi \in BOOLEAN
  /\ queryOutcome \in QueryOutcomes
  /\ acquireOutcome \in AcquireOutcomes
  /\ permission = PermissionIdle

RequestNext ==
  \/ CallRequestCameraPermission
  \/ QuerySettles
  \/ ProbeSettles

SpecRequest == RequestInit /\ [][RequestNext]_vars

\* the session of FaceCaptureDialog with every failure.  The timers of
\* the program fire when they are due: the 100 ms delay of the isOpen
\* effect, the 10 s timeout of setupVideoStream and the timers of the
\* detectFace loop.  The events of the
\* video element and the promises of the browser settle when they settle.
CaptureNext ==
  \/ CaptureOpen
  \/ CaptureStartCamera
  \/ CaptureToggleCamera
  \/ \E granted \in BOOLEAN : CapturePermissionSettles(granted)
  \/ \E ok \in BOOLEAN, ready \in BOOLEAN : CaptureAcquireSettles(ok, ready)
  \/ CaptureLoadedMetadata
  \/ CaptureErrorEvent
  \/ CaptureTimeoutFires
  \/ \E ok \in BOOLEAN : CapturePlaySettles(ok)
  \/ \E ok \in BOOLEAN : CaptureModelsSettle(ok)
  \/ CaptureClose
  \/ \E l \in DOMAIN capture.loops : DetectFace(l)
  \/ \E l \in DOMAIN capture.loops, d \in Probes \cup {NoDescriptor} :
       PresenceSettles(l, d)
  \/ CallCapturePhoto
  \/ \E d \in Probes \cup {NoDescriptor} : ShotExtractSettles(d)
  \/ \E ok \in BOOLEAN : ShotBlobSettles(ok)

SpecCapture == Init /\ [][CaptureNext]_vars

SpecCaptureLive ==
  /\ SpecCapture
  /\ WF_vars(CaptureStartCamera)
  /\ WF_vars(CaptureTimeoutFires)
  /\ WF_vars(\E l \in DOMAIN capture.loops : DetectFace(l))

\* batch enrollment of one to MaxBatch students, with failing updates
BatchInit ==
  /\ MatchIdle /\ DialogInit /\ cameraSupported /\ EngineInit
  /\ CaptureInit /\ DistanceIdle /\ StopIdle /\ RequestIdle /\ DashboardIdle
  /\ \E n \in 1..MaxBatch : batch = BatchClosed(n)

BatchNext ==
  \/ BatchOpen
  \/ BatchShowCapture
  \/ BatchCaptureClosed
  \/ HandleFaceCapture
  \/ \E c \in DOMAIN batch.saving : BatchUploadSettles(c)
  \/ \E c \in DOMAIN batch.saving, ok \in BOOLEAN : BatchUpdateSettles(c, ok)
  \/ SkipStudent
  \/ BatchClose

SpecBatch == BatchInit /\ [][BatchNext]_vars

\* the scan dialog as TeacherDashboard wires it, the students loaded
DashInit ==
  /\ MatchIdle
  /\ isOpen = FALSE
  /\ attendanceMarked = MarkedSet(Fetched)
  /\ isStreaming = FALSE
  /\ isScanning = FALSE
  /\ error = ""
  /\ lastMatch = NoDisplay
  /\ scanCount = 0
  /\ facingMode = "user"
  /\ settings = DefaultSettings
  /\ videoRef = 0
  /\ streamRef = 0
  /\ scanIntervalRef = 0
  /\ cameraSupported = TRUE
  /\ srcObject = [v \in VideoIds |-> 0]
  /\ activeStreams = {}
  /\ intervals = [t \in TimerIds |-> NoClosure]
  /\ starts = EmptyBag
  /\ scans = EmptyBag
  /\ cooldowns = EmptyBag
  /\ markCalls = [s \in Students |-> 0]
  /\ modelsLoaded = TRUE
  /\ pending = EmptyBag
  /\ completion = NoCompletion
  /\ LibIdle

DashNext ==
  \/ Open /\ SingleStart
  \/ HandleClose
  \/ ToggleScanning
  \/ \E s \in Students, status \in Statuses : DashUpdateAttendance(s, status)
  \/ \E ok \in BOOLEAN : DashFetchSettles(ok)
  \/ \E c \in DOMAIN starts : PermissionSettles(c, TRUE)
  \/ \E c \in DOMAIN starts : AcquireSettles(c, TRUE)
  \/ \E c \in DOMAIN starts : ReadySettles(c, TRUE)
  \/ \E t \in TimerIds : IntervalFires(t)
  \/ \E sc \in DOMAIN scans, d \in Probes \cup {NoDescriptor} : DashScanDetects(sc, d)

SpecDashboard == DashInit /\ [][DashNext]_vars

(***************************************************************************)
(* Claims about findBestMatch (SpecMatch)                                  *)
(***************************************************************************)
Comparable == {i \in 1..Len(enrolledFaces) :
                 ~DistanceThrows(inputDescriptor, enrolledFaces[i].descriptor)}
DistanceTo(i) == euclideanDistance(inputDescriptor, enrolledFaces[i].descriptor)

\* C1: findBestMatch never returns a match whose distance is greater than
\* or equal to the threshold.
C1_DistanceBelowThreshold ==
  (returned /\ result # NoMatch) => result.distance < threshold

\* a match was returned from a roster that also holds an entry at or
\* beyond the threshold
C1_Witness ==
  /\ returned
  /\ result # NoMatch
  /\ \E i \in Comparable : DistanceTo(i) >= threshold

\* the reference: the first entry, in roster order, that attains the
\* minimum distance, when that minimum is below the threshold
ReferenceIndex ==
  IF Comparable = {} THEN 0
  ELSE LET m == CHOOSE d \in {DistanceTo(i) : i \in Comparable} :
                   \A j \in Comparable : d <= DistanceTo(j)
       IN  IF m < threshold
           THEN CHOOSE i \in Comparable :
                  /\ DistanceTo(i) = m
                  /\ \A j \in Comparable : DistanceTo(j) = m => i <= j
           ELSE 0

\* C2: findBestMatch returns the first roster entry, in roster order, that
\* attains the minimum distance to the probe when that minimum is strictly
\* below the threshold, and null when the roster is empty or no entry is
\* below the threshold; on an exact tie the earlier entry wins.
C2_FirstNearestBelowThreshold ==
  returned =>
    IF ReferenceIndex = 0 THEN result = NoMatch
    ELSE /\ result.studentId = enrolledFaces[ReferenceIndex].studentId
         /\ result.distance = DistanceTo(ReferenceIndex)

\* a match was returned and a later entry lies at the same distance
C2_Witness ==
  /\ returned
  /\ result # NoMatch
  /\ \E i, j \in Comparable :
       /\ i < j
       /\ enrolledFaces[i].studentId = result.studentId
       /\ DistanceTo(i) = DistanceTo(j)
       /\ DistanceTo(i) = result.distance

(***************************************************************************)
(* Claims about the scan loop (SpecScan)                                   *)
(***************************************************************************)
Outcomes == Probes \cup {NoDescriptor}
PendingCooldownFor(s) == \E cd \in DOMAIN cooldowns : cd.student = s
\* the nearest roster entry of a descriptor, whatever the threshold
Nearest(d) == findBestMatch(d, enrolledStudents, Infinity)

\* C3: a tick that auto-marks student s invokes onMarkAttendance(s) once
\* and pauses scanning for the cooldown; while the cooldown of s is
\* pending, onMarkAttendance is not invoked for s again.
C3_OneMarkPerCooldown ==
  [][\A s \in Students :
       /\ markCalls'[s] # markCalls[s] =>
            /\ markCalls'[s] = markCalls[s] + 1
            /\ scanIntervalRef' = 0
            /\ ~isScanning'
       /\ PendingCooldownFor(s) => markCalls'[s] = markCalls[s]]_vars

\* C4: a tick whose best roster candidate has a confidence above the
\* display threshold but not above the auto-mark threshold (0.5 with the
\* thresholds 0.4 and 0.6) displays that student and does not invoke
\* onMarkAttendance.
C4_TentativeMatchDisplayed ==
  [][\A sc \in DOMAIN scans, d \in Probes :
       (/\ ScanSettles(sc, d)
        /\ Nearest(d).confidence > sc.settings.confidenceThreshold
        /\ Nearest(d).confidence <= sc.settings.autoMarkThreshold)
       => /\ lastMatch' = [student |-> Nearest(d).studentId,
                           confidence |-> Nearest(d).confidence]
          /\ markCalls' = markCalls]_vars

\* C5: a tick does not invoke onMarkAttendance for a student who was in
\* the marked set supplied by the parent when the tick began.
C5_TickReadsCurrentMarkedSet ==
  [][\A sc \in DOMAIN scans, d \in Outcomes :
       ScanSettles(sc, d) =>
         \A s \in sc.markedAtStart : markCalls'[s] = markCalls[s]]_vars

\* C6: once the session is closed and every camera start has settled, no
\* stream is active and no scan interval is set.
C6_NoLeakAfterCloseDuringStart ==
  (~isOpen /\ starts = EmptyBag) =>
     /\ activeStreams = {}
     /\ \A t \in TimerIds : ~intervals[t].live

\* C7: whenever the session is closed it is stopped: the camera is
\* released, no scan interval is set, nothing is streaming or scanning and
\* no match is displayed.
C7_ClosedIsStopped ==
  ~isOpen =>
     /\ streamRef = 0
     /\ activeStreams = {}
     /\ \A t \in TimerIds : ~intervals[t].live
     /\ ~isStreaming
     /\ ~isScanning
     /\ lastMatch = NoDisplay

\* C8: the result of an extraction that was in flight when scanning was
\* stopped is discarded: it sets no displayed match, invokes no
\* onMarkAttendance and schedules no restart.
C8_CancelledResultDiscarded ==
  [][\A sc \in DOMAIN scans, d \in Outcomes :
       (sc.cancelled /\ ScanSettles(sc, d))
       => /\ lastMatch' = lastMatch
          /\ markCalls' = markCalls
          /\ cooldowns' = cooldowns]_vars

\* C9: at most one performScan of the session is awaiting its extraction.
C9_TicksDoNotOverlap == BagCardinality(scans) <= 1

(***************************************************************************)
(* Claims about the camera of the dialog (SpecCamera)                      *)
(***************************************************************************)
\* C10: the dialog holds at most one active camera stream at any moment.
C10_AtMostOneActiveStream == Cardinality(activeStreams) <= 1

\* the step in which the permission request, the stream acquisition or the
\* wait for the playback of the suspended startCamera c fails
FailedStart(c) ==
  \/ PermissionSettles(c, FALSE)
  \/ AcquireSettles(c, FALSE)
  \/ ReadySettles(c, FALSE)

\* C11: when the support check, the permission request or the stream
\* acquisition of a startCamera call fails, the session shows an error
\* message and is neither streaming nor scanning: isStreaming is false and
\* no scan interval is set.
C11_FailedStartIsStopped ==
  [][((Open /\ ~cameraSupported) \/ \E c \in DOMAIN starts : FailedStart(c))
     => /\ error' # ""
        /\ ~isStreaming'
        /\ ~isScanning'
        /\ scanIntervalRef' = 0
        /\ \A t \in TimerIds : ~intervals'[t].live]_vars

\* C12: a change of the facing mode while streaming takes the session
\* through Stopped: at the step in which the startCamera of the change
\* releases the previous stream, before it asks for the new one, that
\* stream is no longer active, no scan interval is set, the session is not
\* scanning and no match is displayed.
C12_FacingChangeStopsSession ==
  [][\A c \in DOMAIN starts :
       (/\ PermissionSettles(c, TRUE)
        /\ c.closure.isStreaming
        /\ streamRef # 0)
       => /\ streamRef \notin activeStreams'
          /\ streamRef' = 0
          /\ scanIntervalRef' = 0
          /\ \A t \in TimerIds : ~intervals'[t].live
          /\ ~isScanning'
          /\ lastMatch' = NoDisplay]_vars

\* C13: when startCamera succeeds the scan interval is set, and every
\* firing of the session's scan interval while the session is streaming
\* and scanning begins a descriptor extraction on the current frame (the
\* tick is not a no-op).
C13_TickExtracts ==
  [][/\ \A c \in DOMAIN starts :
          ReadySettles(c, TRUE) => scanIntervalRef' # 0 /\ isScanning'
     /\ \A t \in TimerIds :
          (/\ IntervalFires(t)
           /\ t = scanIntervalRef
           /\ isOpen /\ isStreaming /\ isScanning /\ videoRef # 0)
          => BagCardinality(scans') = BagCardinality(scans) + 1]_vars

\* C14: a tick whose extraction returns null, being the only tick in
\* flight and not overtaken by a stop, clears the displayed match and
\* changes nothing else: no onMarkAttendance call, no change of the
\* interval, no cooldown.
C14_NoFaceClearsMatch ==
  [][\A sc \in DOMAIN scans :
       (/\ ScanSettles(sc, NoDescriptor)
        /\ ~sc.cancelled
        /\ BagCardinality(scans) = 1)
       => /\ lastMatch' = NoDisplay
          /\ markCalls' = markCalls
          /\ intervals' = intervals
          /\ scanIntervalRef' = scanIntervalRef
          /\ isScanning' = isScanning
          /\ cooldowns' = cooldowns]_vars

\* C15: whenever findBestMatch returns a match under the display threshold
\* during a tick, that match becomes the displayed match, whatever its
\* confidence is.
C15_ReturnedMatchDisplayed ==
  [][\A sc \in DOMAIN scans, d \in Probes :
       (ScanSettles(sc, d) /\ ScanMatch(d, sc) # NoMatch)
       => lastMatch' = [student |-> ScanMatch(d, sc).studentId,
                        confidence |-> ScanMatch(d, sc).confidence]]_vars

(***************************************************************************)
(* Claims about loadModels and getDescriptorFrom... (SpecEngine)           *)
(***************************************************************************)
\* the loadModels calls that are loading a source
LoadsInProgress == BagCardinality([c \in Loading |-> pending[c]])

\* C16: loadModels is single-flight: at most one model load is in progress
\* at any time, whatever the callers do.
C16_SingleFlightLoad == LoadsInProgress <= 1

\* the last source of call c fails: loaded are the nets that arrived
LastSourceFails(c, loaded) ==
  /\ SourceSettles(c, loaded)
  /\ loaded # Nets
  /\ Source(c) = Len(modelSources)

\* C17: when every model source has failed, loadModels throws its
\* model-unavailable error and the loaded flag is false afterwards; a
\* call of loadModels made while the flag is false starts loading again.
C17_FailedLoadClearsFlag ==
  [][/\ \A c \in DOMAIN pending, loaded \in SUBSET Nets :
          LastSourceFails(c, loaded)
          => /\ ~modelsLoaded'
             /\ c.fn = "loadModels" => completion' = Thrown("loadModels", "load")
     /\ (CallLoadModels /\ ~modelsLoaded)
          => LoadsInProgress' = LoadsInProgress + 1]_vars

\* a loadModels call has failed on every source and a later call is
\* loading again
C17_Witness ==
  /\ completion = Thrown("loadModels", "load")
  /\ ~modelsLoaded
  /\ \E c \in Loading : c.fn = "loadModels"

\* C18: within one call, loadModels tries the sources in their order,
\* each at most once; a source from which all three nets load sets the
\* loaded flag and ends the call's loading; a source that fails leaves the
\* flag as it is and is followed by the next source.
C18_SourcesInOrderOnce ==
  [][/\ \A c \in DOMAIN pending' :
          /\ Len(c.tried) <= Len(modelSources)
          /\ c.tried = [i \in 1..Len(c.tried) |-> i]
     /\ \A c \in DOMAIN pending, loaded \in SUBSET Nets :
          SourceSettles(c, loaded) =>
            IF loaded = Nets
            THEN /\ modelsLoaded'
                 /\ LoadsInProgress' = LoadsInProgress - 1
            ELSE Source(c) < Len(modelSources) =>
                   /\ modelsLoaded' = modelsLoaded
                   /\ [c EXCEPT !.tried = Append(@, Source(c) + 1)]
                        \in DOMAIN pending'
                   /\ LoadsInProgress' = LoadsInProgress]_vars

\* a call whose first source failed and whose second source loaded
C18_Witness ==
  /\ modelsLoaded
  /\ \E c \in DOMAIN pending : c.pc = "detect" /\ c.tried = <<1, 2>>

\* C19: getDescriptorFromVideoFrame and getDescriptorFromImageElement
\* never throw to their caller: they return the descriptor when a face is
\* detected, and null when no face is found, when the detection fails and
\* when the models cannot be loaded.
C19_ExtractionNeverThrows ==
  [][\A c \in DOMAIN pending :
       (c.fn \in DescriptorFns /\ c.scan = <<>>) =>
         /\ \A detection \in Detections :
              DetectSettles(c, detection) =>
                /\ ~completion'.thrown
                /\ completion'.fn = c.fn
                /\ completion'.value =
                     IF detection.kind = "face" THEN detection.descriptor
                     ELSE NoDescriptor
         /\ \A loaded \in SUBSET Nets :
              LastSourceFails(c, loaded) =>
                /\ ~completion'.thrown
                /\ completion'.fn = c.fn
                /\ completion'.value = NoDescriptor]_vars

\* an extraction whose detection failed has returned null
C19_Witness ==
  /\ completion.fn \in DescriptorFns
  /\ completion.cause = "detect"
  /\ completion.value = NoDescriptor
  /\ ~completion.thrown

(***************************************************************************)
(* Claims about the scan loop of a session without models (SpecScanLoad)   *)
(***************************************************************************)
\* C20: when the models cannot be loaded from any source for a tick of the
\* scan session, the session shows an error message and stops: it is no
\* longer streaming or scanning and no scan interval is set.
C20_ModelFailureSurfaced ==
  [][\A c \in DOMAIN pending, loaded \in SUBSET Nets :
       (LastSourceFails(c, loaded) /\ c.scan # <<>>)
       => /\ error' # ""
          /\ ~isStreaming'
          /\ ~isScanning'
          /\ scanIntervalRef' = 0]_vars


\* the step in which setupVideoStream fails for the suspended call c after
\* getUserMedia gave it a stream: the wait for the metadata and the playback
\* ends with a playback failure, an error event or the timeout
FailsAfterStream(c) == ReadySettles(c, FALSE)

\* C21: whenever setupVideoStream fails after a stream was obtained, the
\* video element's srcObject is null and the stream the call obtained is
\* stopped when the error reaches the caller.
C21_FailedSetupStopsItsStream ==
  [][\A c \in DOMAIN starts :
       FailsAfterStream(c) => /\ srcObject'[c.video] = 0
                              /\ c.stream \notin activeStreams']_vars


(***************************************************************************)
(* Claims about setupVideoStream and the capture dialog (SpecCapture)      *)
(***************************************************************************)
\* setupVideoStream has bound the stream to the video element and waits
\* for the metadata or for the playback to start
InReadinessWait == capture.pc \in {"metadata", "play"}

\* C22: once the stream is bound to the video element, the readiness wait
\* of setupVideoStream (metadata, then playback start) ends: by success,
\* by an error event or by the timeout.
C22_ReadinessWaitEnds == InReadinessWait ~> ~InReadinessWait


\* the step in which the startCamera of the capture dialog ends with an
\* error after getUserMedia gave it a stream
StartEndsInError ==
  /\ capture.pc \in {"metadata", "play", "models"}
  /\ capture'.pc = "idle"
  /\ capture'.error # ""

\* C23: whenever the start sequence of a dialog ends with an error after a
\* stream was acquired, that stream is stopped: the dialog does not show
\* an error while the camera it acquired is still live.
C23_ErrorReleasesCamera ==
  [][StartEndsInError => capture.started \notin capture'.active]_vars


(***************************************************************************)
(* Claims about stopVideoStream (SpecStop)                                 *)
(***************************************************************************)
AllEnded(stream) == \A i \in DOMAIN stream : stream[i] = "ended"

\* C24: stopVideoStream is idempotent: a second call on the same stream
\* returns without an error and leaves the stream as the first call left
\* it, every track stopped.
C24_StopIsIdempotent ==
  [][(StopVideoStream /\ stopCalls >= 1)
       => /\ tracks' = tracks
          /\ AllEnded(tracks')
          /\ stopResult' = "returned"]_vars

\* a stream of several tracks has been stopped twice
C24_Witness ==
  /\ stopCalls = 2
  /\ Len(tracks) >= 2
  /\ AllEnded(tracks)
  /\ stopResult = "returned"


(***************************************************************************)
(* Claims about euclideanDistance (SpecDistance)                           *)
(***************************************************************************)
\* C25: for vectors a and b of equal length, euclideanDistance(a, a) is 0
\* and euclideanDistance(a, b) equals euclideanDistance(b, a).
C25_DistanceZeroAndSymmetric ==
  /\ measured["aa"].pc = "returned" => measured["aa"].value = 0
  /\ (Len(vecA) = Len(vecB) /\ measured["ab"].pc # "idle"
        /\ measured["ba"].pc # "idle")
       => /\ measured["ab"].pc = "returned"
          /\ measured["ba"].pc = "returned"
          /\ measured["ab"].value = measured["ba"].value

\* the three calls were made on two different vectors of one length
C25_Witness ==
  /\ Len(vecA) = Len(vecB)
  /\ vecA # vecB
  /\ \A k \in Pairs : measured[k].pc = "returned"
  /\ measured["ab"].value > 0

\* C26: euclideanDistance called with vectors of different lengths fails
\* with the length-mismatch error and returns no number.
C26_MismatchThrows ==
  \A k \in Pairs :
    (Len(Left(k)) # Len(Right(k)) /\ measured[k].pc # "idle")
      => measured[k].pc = "thrown"

\* both orders of two vectors of different lengths were tried
C26_Witness ==
  /\ Len(vecA) # Len(vecB)
  /\ measured["ab"].pc = "thrown"
  /\ measured["ba"].pc = "thrown"


(***************************************************************************)
(* Further claims about findBestMatch (SpecMatch)                          *)
(***************************************************************************)
\* C27: findBestMatch does not return, neither a match nor null, when the
\* length of an enrolled descriptor differs from the length of the input
\* descriptor: the call fails with the length-mismatch error.
C27_MismatchFailsMatcher ==
  returned => Comparable = 1..Len(enrolledFaces)


\* the entries of the roster that give the distance of the returned match
Producers ==
  {i \in Comparable : DistanceTo(i) = result.distance}

\* C28: a match returned by findBestMatch carries the confidence
\* max(0, 1 - distance) of its own distance, which lies between 0 and 1,
\* and the studentId of a roster entry that is at that distance.
C28_ConfidenceOfOwnDistance ==
  (returned /\ result # NoMatch)
    => /\ result.confidence =
            (IF result.distance >= 100 THEN 0 ELSE 100 - result.distance)
       /\ result.confidence >= 0
       /\ result.confidence <= 100
       /\ \E i \in Producers : enrolledFaces[i].studentId = result.studentId

\* a match farther than 1.0 was returned, with confidence 0, from a roster
\* whose other entry is at another distance
C28_Witness ==
  /\ returned
  /\ result # NoMatch
  /\ result.distance > 100
  /\ result.confidence = 0
  /\ Len(enrolledFaces) = 2
  /\ Cardinality(Producers) = 1


(***************************************************************************)
(* Claims about requestCameraPermission (SpecRequest)                      *)
(***************************************************************************)
\* the permission query reported the state 'denied'
ExplicitDenial == permissionsApi /\ queryOutcome = "denied"

\* C29: requestCameraPermission answers granted = false without calling
\* getUserMedia only when the permission query reports 'denied'; in every
\* other case (no permissions API, state granted or prompt, a query that
\* fails) it calls getUserMedia and answers by the outcome of that call.
C29_AcquiresUnlessDenied ==
  permission.pc = "returned"
    => IF ExplicitDenial
       THEN ~permission.attempted /\ ~permission.granted
       ELSE /\ permission.attempted
            /\ permission.granted = (acquireOutcome = "stream")

\* C30: requestCameraPermission never throws and leaves no camera active:
\* it ends by returning its result, with an error message when the answer
\* is not granted, and every track of the stream it acquired is stopped.
C30_ReturnsWithProbeStopped ==
  /\ permission.pc # "thrown"
  /\ permission.pc = "returned"
       => /\ AllEnded(permission.probe)
          /\ permission.granted = (permission.error = "")

\* the call acquired a stream and returned granted
C30_Witness ==
  /\ permission.pc = "returned"
  /\ permission.granted
  /\ permission.attempted
  /\ permission.probe # <<>>
  /\ AllEnded(permission.probe)


(***************************************************************************)
(* Claims about the enrollment capture (SpecCapture)                       *)
(***************************************************************************)
\* C31: onCapture is invoked only by capturePhoto, at most once per
\* capturePhoto call, and with the descriptor, never null, that this call
\* extracted; when the extraction of capturePhoto finds no face, onCapture
\* is not invoked and the dialog is left as open as it was, with an error.
C31_CaptureDeliversItsDescriptor ==
  [][/\ capture'.delivered # capture.delivered
          => /\ \E ok \in BOOLEAN : ShotBlobSettles(ok)
             /\ capture'.delivered =
                  Append(capture.delivered,
                         [shot |-> capture.shot.id,
                          descriptor |-> capture.shot.descriptor])
             /\ capture.shot.descriptor # NoDescriptor
             /\ \A i \in 1..Len(capture.delivered) :
                  capture.delivered[i].shot # capture.shot.id
     /\ ShotExtractSettles(NoDescriptor)
          => /\ capture'.delivered = capture.delivered
             /\ capture'.isOpen = capture.isOpen
             /\ capture'.error # ""
             /\ capture'.shot = NoShot]_vars

\* the first capturePhoto ended without a call of onCapture, the second
\* delivered its descriptor
C31_Witness ==
  /\ capture.shots = 2
  /\ Len(capture.delivered) = 1
  /\ capture.delivered[1].shot = 2
  /\ capture.delivered[1].descriptor \in Probes


\* C32: after the camera of the capture dialog has started, the presence
\* loop keeps running for as long as the dialog is streaming: a detection
\* is under way or the timer of the next one is armed.
C32_PresenceLoopRuns ==
  (capture.isOpen /\ capture.isStreaming /\ capture.pc = "idle")
    => capture.loops # EmptyBag


(***************************************************************************)
(* Claims about batch enrollment (SpecBatch)                               *)
(***************************************************************************)
\* the step in which the last student is skipped or captured
ReachesCompletion ==
  \/ SkipStudent /\ batch.currentStudentIndex = batch.n - 1
  \/ \E c \in DOMAIN batch.saving :
       BatchUpdateSettles(c, TRUE) /\ c.index = batch.n - 1

\* C33: whenever batch enrollment reaches completion, the last student
\* without face data having been captured or skipped, onEnrollmentComplete
\* is invoked once.
C33_CompletionNotifiesOnce ==
  [][ReachesCompletion => batch'.completed = batch.completed + 1]_vars


(***************************************************************************)
(* Claims about the session of FaceScanDialog, continued                   *)
(***************************************************************************)
\* C34: a change of the scan settings saved while the camera is streaming
\* takes effect for the following scan ticks: a tick that begins a scan
\* reads the settings that are current when it begins.
C34_TickReadsCurrentSettings ==
  [][\A t \in TimerIds :
       (IntervalFires(t) /\ scans' # scans)
       => intervals[t].settings = settings]_vars


\* C35: pausing, toggleScanning while scanning, only suspends the scan
\* timer: the timer held in scanIntervalRef is cleared and isScanning is
\* false, while the camera stream stays live and streamRef, isStreaming
\* and the displayed match are left unchanged.
C35_PauseKeepsStream ==
  [][(ToggleScanning /\ isScanning)
     => /\ UNCHANGED <<streamRef, isStreaming, lastMatch, activeStreams,
                       srcObject>>
        /\ scanIntervalRef' = 0
        /\ ~isScanning'
        /\ scanIntervalRef # 0 => ~intervals'[scanIntervalRef].live]_vars

\* the user has paused a streaming session that displayed a match when it
\* was paused: no scan has settled since scanning was last started
C35_Witness ==
  /\ isOpen /\ isStreaming /\ ~isScanning
  /\ scanCount = 0
  /\ scans = EmptyBag
  /\ scanIntervalRef = 0
  /\ streamRef \in activeStreams
  /\ lastMatch # NoDisplay
  /\ cooldowns = EmptyBag
  /\ \A s \in Students : markCalls[s] = 0


(***************************************************************************)
(* Claims about batch enrollment, continued                                *)
(***************************************************************************)
\* C36: while the batch dialog is open the index stays within 0..n-1; a
\* skip or a successful capture at a student who is not the last advances
\* the index by exactly one; a capture whose persistence fails leaves the
\* index and the enrolled set unchanged; and the index of an open dialog
\* moves only by a skip or by the successful capture of the student it
\* stands at, so that no student is passed over.
C36_IndexAdvancesByCaptureOrSkip ==
  [][/\ batch'.isOpen => batch'.currentStudentIndex \in 0..(batch.n - 1)
     /\ (SkipStudent /\ batch.currentStudentIndex < batch.n - 1)
        => batch'.currentStudentIndex = batch.currentStudentIndex + 1
     /\ \A c \in DOMAIN batch.saving :
          /\ (BatchUpdateSettles(c, TRUE) /\ c.index < batch.n - 1)
             => batch'.currentStudentIndex = batch.currentStudentIndex + 1
          /\ BatchUpdateSettles(c, FALSE)
             => /\ batch'.currentStudentIndex = batch.currentStudentIndex
                /\ batch'.enrolledStudents = batch.enrolledStudents
     /\ (/\ batch.isOpen /\ batch'.isOpen
         /\ batch'.currentStudentIndex # batch.currentStudentIndex)
        => \/ SkipStudent
           \/ \E c \in DOMAIN batch.saving :
                /\ BatchUpdateSettles(c, TRUE)
                /\ c.index = batch.currentStudentIndex]_vars


(***************************************************************************)
(* Claims about the scan timer (SpecTimer)                                 *)
(***************************************************************************)
LiveTimers == {t \in TimerIds : intervals[t].live}

\* C37: at most one scan interval timer exists at any time, it is the one
\* held in scanIntervalRef, and isScanning is true exactly when
\* scanIntervalRef holds a timer.
C37_OneTimerAndFlagAgree ==
  /\ Cardinality(LiveTimers) <= 1
  /\ LiveTimers \subseteq {scanIntervalRef}
  /\ isScanning <=> scanIntervalRef # 0
  /\ scanIntervalRef # 0 => scanIntervalRef \in LiveTimers

\* scanning was restarted by a cooldown after an auto-mark, on a session
\* whose camera was flipped
C37_Witness ==
  /\ isScanning
  /\ scanIntervalRef \in LiveTimers
  /\ \E s \in Students : markCalls[s] > 0
  /\ cooldowns = EmptyBag
  /\ facingMode = "environment"


\* The user has paused and not resumed: the session streams, scanning is
\* stopped, and no scan has settled since scanning was last started (an
\* auto-mark, the other stop of a streaming session, settles a scan).
UserPaused ==
  /\ isOpen /\ isStreaming
  /\ ~isScanning
  /\ scanCount = 0

\* C38: a pause requested by the user is sticky: a cooldown timer armed by
\* an earlier auto-mark does not restart scanning that the user has paused
\* since.
C38_PauseIsSticky ==
  [][\A cd \in DOMAIN cooldowns :
       (UserPaused /\ CooldownFires(cd)) => ~isScanning']_vars


(***************************************************************************)
(* Claims about the camera flip (SpecCamera)                               *)
(***************************************************************************)
\* C39: after any sequence of camera flips, once every camera start has
\* settled, the active stream was requested with the current facingMode:
\* the start that settles last with a stream asked for the facing mode
\* that is current then.
C39_StreamHasCurrentFacing ==
  [][\A c \in DOMAIN starts :
       (isOpen /\ ReadySettles(c, TRUE) /\ starts' = EmptyBag)
       => c.facingMode = facingMode]_vars


(***************************************************************************)
(* Claims about the wiring of TeacherDashboard (SpecDashboard)             *)
(***************************************************************************)
\* C40: as TeacherDashboard wires it, the marked set handed to
\* FaceScanDialog always contains the id of every loaded student, so no
\* scan tick ever invokes onMarkAttendance for a student of the roster.
C40_DashboardNeverAutoMarks ==
  /\ attendanceMarked = MarkedSet(dashboard.attendance)
  /\ Students \subseteq attendanceMarked
  /\ \A s \in Students : markCalls[s] = 0

\* a student recorded as absent on the dashboard is displayed by a scan as
\* a match above the auto-mark threshold, and nothing is marked
C40_Witness ==
  /\ lastMatch # NoDisplay
  /\ lastMatch.confidence > settings.autoMarkThreshold
  /\ [student_id |-> lastMatch.student, status |-> "absent"]
       \in dashboard.attendance
  /\ \A s \in Students : markCalls[s] = 0

====
